---- MODULE Spec2Model ----
(***************************************************************************)
(* Authorization and tenancy-resolution core of the IoT fleet backend:     *)
(* role matrix (utils/permissions.ts), active-company middleware           *)
(* (middlewares/activeCompany.middleware.ts), and the User / Company /     *)
(* Device / Auth services working on the Prisma store.                     *)
(***************************************************************************)
EXTENDS Integers, Sequences, FiniteSets, TLC

(***************************************************************************)
(* Bounds of the model                                                     *)
(***************************************************************************)
\* number of user rows the store can hold besides nothing (ids u1..uN)
MaxUsers == 3
\* number of company rows (ids c1..cN)
MaxCompanies == 3
\* number of device rows (ids d1..dN)
MaxDevices == 2
\* longest companyIds / deviceIds array a request body carries
MaxIds == 2
\* number of mutating requests served in one behaviour of the store
MaxOps == 3
MaxSessions == 1
MaxFields == 2

(***************************************************************************)
(* Value domains                                                           *)
(***************************************************************************)
None == "none"

Digit(i) == CASE i = 1 -> "1" [] i = 2 -> "2" [] i = 3 -> "3" [] i = 4 -> "4"
              [] i = 5 -> "5" [] OTHER -> "6"

UserIdOf(i) == "u" \o Digit(i)
CompanyIdOf(i) == "c" \o Digit(i)
DeviceIdOf(i) == "d" \o Digit(i)

UserIds == {UserIdOf(i) : i \in 1..MaxUsers}
CompanyIds == {CompanyIdOf(i) : i \in 1..MaxCompanies}
DeviceIds == {DeviceIdOf(i) : i \in 1..MaxDevices}

\* enum Role (types/user.types.ts)
Role == {"VIEWER", "MANAGER", "ADMIN", "SUPER_ADMIN"}
\* enum UserStatus
UserStatus == {"ADDED", "VALIDATED", "SUSPENDED"}
\* error classes of utils/errors.ts; "next" is a request that went through
ErrorKinds == {"ValidationError", "NotFoundError", "UnauthorizedError",
               "ForbiddenError", "ConflictError"}

Range(s) == {s[i] : i \in 1..Len(s)}
\* Array.prototype.includes
includes(arr, x) == \E i \in 1..Len(arr) : arr[i] = x
\* arr[0] of a JavaScript array: undefined when the array is empty
first(arr) == IF Len(arr) = 0 THEN None ELSE arr[1]

\* sequences over S without repetition, of length at most n
RECURSIVE InjSeqs(_, _)
InjSeqs(S, n) ==
  IF n = 0 THEN {<<>>}
  ELSE LET shorter == InjSeqs(S, n - 1)
       IN shorter \cup
            UNION {{Append(s, x) : x \in S \ Range(s)} :
                     s \in {t \in shorter : Len(t) = n - 1}}

(***************************************************************************)
(* X-Active-Company header values and the UUID shape test                  *)
(***************************************************************************)
RECURSIVE Rep(_, _)
Rep(ch, n) == IF n = 0 THEN <<>> ELSE <<ch>> \o Rep(ch, n - 1)

\* the text of company id c_i, a version-4-looking UUID "aaaaaaai-aaaa-..."
UuidText(ch, i) ==
  Rep(ch, 7) \o <<Digit(i)>> \o <<"-">> \o Rep(ch, 4) \o <<"-">> \o Rep(ch, 4)
    \o <<"-">> \o Rep(ch, 4) \o <<"-">> \o Rep(ch, 12)

\* a header value is the company id it spells, or one of the other texts
UpperOf(i) == "C" \o Digit(i)
IndexOf(h) == CHOOSE i \in 1..(MaxCompanies + 1) :
                h \in {CompanyIdOf(i), UpperOf(i)}
Headers ==
  {None, "empty", "short", "nothex", "nodash", "long"}
    \cup CompanyIds \cup {CompanyIdOf(MaxCompanies + 1)}
    \cup {UpperOf(i) : i \in 1..MaxCompanies}

HeaderTexts ==
  [h \in Headers |->
     CASE h = None -> <<>>
       [] h = "empty" -> <<>>
       [] h = "short" -> <<"c", "1">>
       [] h = "nothex" -> UuidText("g", 1)
       [] h = "nodash" -> Rep("a", 36)
       [] h = "long" -> UuidText("a", 1) \o <<"0">>
       [] h \in {UpperOf(i) : i \in 1..MaxCompanies} -> UuidText("A", IndexOf(h))
       [] OTHER -> UuidText("a", IndexOf(h))]
HeaderText(h) == HeaderTexts[h]

HexDigits == {"0", "1", "2", "3", "4", "5", "6", "7", "8", "9",
              "a", "b", "c", "d", "e", "f", "A", "B", "C", "D", "E", "F"}

\* /^[0-9a-f]{8}-[0-9a-f]{4}-[0-9a-f]{4}-[0-9a-f]{4}-[0-9a-f]{12}$/i
uuidRegexUnanchored(s) ==
  /\ Len(s) >= 36
  /\ \A i \in 1..36 :
       IF i \in {9, 14, 19, 24} THEN s[i] = "-" ELSE s[i] \in HexDigits
uuidRegex_test(s) ==
  /\ Len(s) = 36
  /\ \A i \in 1..36 :
       IF i \in {9, 14, 19, 24} THEN s[i] = "-" ELSE s[i] \in HexDigits

\* the header values whose text the expression accepts
UuidShaped == {h \in Headers : uuidRegex_test(HeaderText(h))}
uuidRegex(h) == h \in UuidShaped

\* JavaScript truthiness of req.headers["x-active-company"]
Truthy == {h \in Headers : h # None /\ Len(HeaderText(h)) > 0}
HeaderGiven(h) == h \in Truthy

(***************************************************************************)
(* Caller descriptor (AuthUser) carried by an access token                 *)
(***************************************************************************)
AuthUser(id, role, companyIds, primaryCompanyId) ==
  [id |-> id, role |-> role, companyIds |-> companyIds,
   primaryCompanyId |-> primaryCompanyId]
\* req.user of a request that did not pass authenticate
NoUser == AuthUser(None, None, <<>>, None)

\* every descriptor a token can carry
AuthUsers ==
  {AuthUser(id, r, cs, p) : id \in {UserIdOf(1)}, r \in Role,
                            cs \in InjSeqs(CompanyIds, MaxIds),
                            p \in CompanyIds \cup {None}}

(***************************************************************************)
(* utils/permissions.ts                                                    *)
(***************************************************************************)
Actions == {"create", "update", "delete"}

actionMapNoAsymmetry(action, actorRole) ==
  CASE actorRole = "SUPER_ADMIN" -> {"SUPER_ADMIN", "ADMIN", "MANAGER", "VIEWER"}
    [] actorRole = "ADMIN" -> {"MANAGER", "VIEWER"}
    [] actorRole = "MANAGER" -> {"VIEWER"}
    [] OTHER -> {}
actionMap(action, actorRole) ==
  CASE action \in {"create", "update"} /\ actorRole = "SUPER_ADMIN" ->
         {"SUPER_ADMIN", "ADMIN", "MANAGER", "VIEWER"}
    [] action = "delete" /\ actorRole = "SUPER_ADMIN" ->
         {"ADMIN", "MANAGER", "VIEWER"}
    [] actorRole = "ADMIN" -> {"MANAGER", "VIEWER"}
    [] actorRole = "MANAGER" -> {"VIEWER"}
    [] OTHER -> {}

canManageRole(actorRole, targetRole, action) ==
  targetRole \in actionMap(action, actorRole)

(***************************************************************************)
(* middlewares/activeCompany.middleware.ts                                 *)
(***************************************************************************)
Next_(activeCompanyId) == [kind |-> "next", activeCompanyId |-> activeCompanyId]
Fail(kind) == [kind |-> kind, activeCompanyId |-> None]

activeCompanyMiddlewareFirstOnly(authUser, headerCompanyId) ==
  IF authUser = NoUser THEN Fail("ForbiddenError")
  ELSE IF authUser.role = "SUPER_ADMIN" THEN
    IF HeaderGiven(headerCompanyId)
    THEN IF ~uuidRegex(headerCompanyId) THEN Fail("ValidationError")
         ELSE Next_(headerCompanyId)
    ELSE Next_(None)
  ELSE IF HeaderGiven(headerCompanyId) /\ ~uuidRegex(headerCompanyId)
    THEN Fail("ValidationError")
  ELSE IF HeaderGiven(headerCompanyId)
          /\ ~includes(authUser.companyIds, headerCompanyId)
    THEN Fail("ForbiddenError")
  ELSE LET activeCompanyId ==
             IF HeaderGiven(headerCompanyId) THEN headerCompanyId
             ELSE first(authUser.companyIds)
       IN IF activeCompanyId = None THEN Fail("ForbiddenError")
          ELSE Next_(activeCompanyId)

activeCompanyMiddleware(authUser, headerCompanyId) ==
  IF authUser = NoUser THEN Fail("ForbiddenError")
  ELSE IF authUser.role = "SUPER_ADMIN" THEN
    IF HeaderGiven(headerCompanyId)
    THEN IF ~uuidRegex(headerCompanyId) THEN Fail("ValidationError")
         ELSE Next_(headerCompanyId)
    ELSE Next_(None)
  ELSE IF HeaderGiven(headerCompanyId) /\ ~uuidRegex(headerCompanyId)
    THEN Fail("ValidationError")
  ELSE IF HeaderGiven(headerCompanyId)
          /\ ~includes(authUser.companyIds, headerCompanyId)
    THEN Fail("ForbiddenError")
  ELSE LET activeCompanyId ==
             IF HeaderGiven(headerCompanyId) THEN headerCompanyId
             ELSE IF authUser.primaryCompanyId # None
               THEN authUser.primaryCompanyId
             ELSE first(authUser.companyIds)
       IN IF activeCompanyId = None THEN Fail("ForbiddenError")
          ELSE Next_(activeCompanyId)

optionalActiveCompanyMiddleware(authUser, headerCompanyId) ==
  IF authUser = NoUser THEN Fail("ForbiddenError")
  ELSE IF authUser.role = "SUPER_ADMIN" THEN
    IF HeaderGiven(headerCompanyId)
    THEN IF ~uuidRegex(headerCompanyId) THEN Fail("ValidationError")
         ELSE Next_(headerCompanyId)
    ELSE Next_(None)
  ELSE IF HeaderGiven(headerCompanyId) THEN
    IF ~uuidRegex(headerCompanyId) THEN Fail("ValidationError")
    ELSE IF ~includes(authUser.companyIds, headerCompanyId)
      THEN Fail("ForbiddenError")
    ELSE Next_(headerCompanyId)
  ELSE Next_(authUser.primaryCompanyId)

(***************************************************************************)
(* Company scope helpers of the services (services/device.service.ts,      *)
(* services/user.service.ts); headerCompanyId is req.activeCompanyId as    *)
(* the controllers pass it                                                 *)
(***************************************************************************)
Value(v) == [kind |-> "next", value |-> v]
Throw(kind) == [kind |-> kind, value |-> None]

DeviceService_getActiveCompanyId(authUser, headerCompanyId) ==
  IF headerCompanyId # None THEN
    IF authUser.role # "SUPER_ADMIN"
       /\ ~includes(authUser.companyIds, headerCompanyId)
    THEN Throw("ForbiddenError")
    ELSE Value(headerCompanyId)
  ELSE LET primaryCompany == first(authUser.companyIds)
       IN IF primaryCompany = None THEN Throw("ValidationError")
          ELSE Value(primaryCompany)

UserService_getActiveCompanyId(authUser, headerCompanyId) ==
  IF authUser.role = "SUPER_ADMIN" THEN headerCompanyId
  ELSE IF headerCompanyId # None /\ includes(authUser.companyIds, headerCompanyId)
    THEN headerCompanyId
  ELSE first(authUser.companyIds)

\* the company / user part of the Prisma where clause getDevices builds;
\* None in a field is "no condition on that column"
Where(kind, companyId, userId) ==
  [kind |-> kind, companyId |-> companyId, userId |-> userId]

getDevicesWhereHeaderScoped(queryCompanyId, authUser, headerCompanyId) ==
  Where("next", headerCompanyId, None)
getDevicesWhere(queryCompanyId, authUser, headerCompanyId) ==
  IF authUser.role = "SUPER_ADMIN" THEN Where("next", queryCompanyId, None)
  ELSE IF authUser.role \in {"ADMIN", "MANAGER"} THEN
    LET activeCompanyId ==
          DeviceService_getActiveCompanyId(authUser, headerCompanyId)
    IN IF activeCompanyId.kind # "next" THEN Where(activeCompanyId.kind, None, None)
       ELSE Where("next", activeCompanyId.value, None)
  ELSE Where("next", None, authUser.id)

\* kind "empty" is the early return of an empty page
getUsersWhere(queryCompanyId, authUser, headerCompanyId) ==
  IF authUser.role = "SUPER_ADMIN" THEN
    IF queryCompanyId # None THEN Where("next", queryCompanyId, None)
    ELSE Where("next", headerCompanyId, None)
  ELSE LET activeCompanyId ==
             UserService_getActiveCompanyId(authUser, headerCompanyId)
       IN IF activeCompanyId = None THEN Where("empty", None, None)
          ELSE Where("next", activeCompanyId,
                     IF authUser.role = "VIEWER" THEN authUser.id ELSE None)

(***************************************************************************)
(* State                                                                   *)
(***************************************************************************)
VARIABLES
  users,        \* User rows: id -> [email, role, status, primaryCompanyId, deleted]
  userCompany,  \* UserCompany rows of each user, in insertion order
  userDevice,   \* UserDevice rows of each user
  companies,    \* Company rows: id -> [name, deleted]
  devices,      \* Device rows: id -> [companyId, serialNumber, parentId, deleted]
  sessions,     \* Session rows: user id -> number of rows of that user
  tokens,       \* access token a client holds: user id -> AuthUser
  last,         \* the last request served and its response
  call          \* a function of the core under evaluation: input and outputs

store == <<users, userCompany, userDevice, companies, devices, sessions>>
vars == <<users, userCompany, userDevice, companies, devices, sessions,
          tokens, last, call>>

(***************************************************************************)
(* Initial store: the seeded installation, one SUPER_ADMIN and nothing     *)
(* else (prisma/seed.ts); nobody is logged in                              *)
(***************************************************************************)
UserRow(email, role, status, primaryCompanyId, deleted) ==
  [email |-> email, role |-> role, status |-> status,
   primaryCompanyId |-> primaryCompanyId, deleted |-> deleted]
CompanyRow(name, deleted) == [name |-> name, deleted |-> deleted]
DeviceRow(companyId, serialNumber, parentId, deleted) ==
  [companyId |-> companyId, serialNumber |-> serialNumber,
   parentId |-> parentId, deleted |-> deleted]

Root == UserIdOf(1)
Empty == [x \in {} |-> None]
Idle == [fn |-> "idle"]

InitStore ==
  /\ users = (Root :> UserRow("e1", "SUPER_ADMIN", "VALIDATED", None, FALSE))
  /\ userCompany = (Root :> <<>>)
  /\ userDevice = (Root :> {})
  /\ companies = Empty
  /\ devices = Empty
  /\ sessions = [u \in UserIds |-> 0]

(***************************************************************************)
(* The store as one value, and the outcome of a handler: the error thrown  *)
(* ("next" when none) and the store as the handler left it                 *)
(***************************************************************************)
DB == [users |-> users, userCompany |-> userCompany, userDevice |-> userDevice,
       companies |-> companies, devices |-> devices, sessions |-> sessions]
Done(db) == [kind |-> "next", db |-> db]
Err(kind, db) == [kind |-> kind, db |-> db]

\* an optional field of a request body: <<>> when left out, <<v>> when given
NotGiven == <<>>
Given(v) == <<v>>
IsGiven(f) == Len(f) = 1

LiveCompanies(db) == {c \in DOMAIN db.companies : ~db.companies[c].deleted}
LiveDevices(db) == {d \in DOMAIN db.devices : ~db.devices[d].deleted}
LiveUsers(db) == {u \in DOMAIN db.users : ~db.users[u].deleted}

\* the id the store gives a new row, and the label (email, name, serial
\* number) nobody has used yet
Fresh(used, IdOf(_), n) ==
  IF \A i \in 1..n : IdOf(i) \in used THEN 0
  ELSE CHOOSE i \in 1..n :
         IdOf(i) \notin used /\ \A j \in 1..(i - 1) : IdOf(j) \in used

(***************************************************************************)
(* services/user.service.ts                                                *)
(***************************************************************************)
canManageUser(authUser, targetRole) ==
  IF authUser.role = "SUPER_ADMIN" THEN TRUE
  ELSE IF authUser.role = "ADMIN" THEN targetRole \in {"MANAGER", "VIEWER"}
  ELSE IF authUser.role = "MANAGER" THEN targetRole = "VIEWER"
  ELSE FALSE

canCreateRole(authUser, targetRole) ==
  CASE authUser.role = "SUPER_ADMIN" -> TRUE
    [] authUser.role = "ADMIN" -> targetRole \in {"MANAGER", "VIEWER"}
    [] authUser.role = "MANAGER" -> targetRole = "VIEWER"
    [] OTHER -> FALSE

\* data: [email, role, companyIds (array), deviceIds (set)]; id: the new row
createUser(db, data, authUser, id) ==
  LET companyIds ==
        IF Len(data.companyIds) = 0 /\ authUser.role # "SUPER_ADMIN"
        THEN authUser.companyIds ELSE data.companyIds
      deviceIds == data.deviceIds
      foundCompanies == Range(companyIds) \cap LiveCompanies(db)
      foundDevices == deviceIds \cap LiveDevices(db)
      deviceCompanyIds == {db.devices[d].companyId : d \in foundDevices}
  IN IF ~canCreateRole(authUser, data.role) THEN Err("ForbiddenError", db)
     ELSE IF \E u \in DOMAIN db.users : db.users[u].email = data.email
       THEN Err("ConflictError", db)
     ELSE IF Len(companyIds) > 0 /\ Cardinality(foundCompanies) # Len(companyIds)
       THEN Err("ValidationError", db)
     ELSE IF data.role = "VIEWER" /\ deviceIds = {}
       THEN Err("ValidationError", db)
     ELSE IF deviceIds # {} /\ foundDevices # deviceIds
       THEN Err("ValidationError", db)
     ELSE IF deviceIds # {} /\ authUser.role # "SUPER_ADMIN"
             /\ ~(deviceCompanyIds \subseteq Range(authUser.companyIds))
       THEN Err("ForbiddenError", db)
     ELSE IF deviceIds # {} /\ Len(companyIds) > 0
             /\ ~(deviceCompanyIds \subseteq Range(companyIds))
       THEN Err("ValidationError", db)
     ELSE Done([db EXCEPT
            !.users = @ @@ (id :> UserRow(data.email, data.role, "ADDED",
                              IF Len(companyIds) = 1 THEN companyIds[1] ELSE None,
                              FALSE)),
            !.userCompany = @ @@ (id :> companyIds),
            !.userDevice = @ @@ (id :> deviceIds)])

\* data: [email, role, status, companyIds, deviceIds], each optional
updateUser(db, id, data, authUser) ==
  IF id \notin LiveUsers(db) THEN Err("NotFoundError", db)
  ELSE
  LET existingUser == db.users[id]
      existingCompanies == db.userCompany[id]
  IN IF ~canManageUser(authUser, existingUser.role) THEN Err("ForbiddenError", db)
     ELSE IF IsGiven(data.role) /\ ~canManageUser(authUser, data.role[1])
       THEN Err("ForbiddenError", db)
     ELSE IF /\ IsGiven(data.email) /\ data.email[1] # existingUser.email
             /\ \E u \in DOMAIN db.users : db.users[u].email = data.email[1]
       THEN Err("ConflictError", db)
     ELSE
     LET \* the fields user.update is going to write
         updateData0 ==
           [existingUser EXCEPT
              !.email = IF IsGiven(data.email) THEN data.email[1] ELSE @,
              !.role = IF IsGiven(data.role) THEN data.role[1] ELSE @,
              !.status = IF IsGiven(data.status) THEN data.status[1] ELSE @]
         companyIds == IF IsGiven(data.companyIds) THEN data.companyIds[1] ELSE <<>>
         companiesValid ==
           Len(companyIds) = 0
             \/ Cardinality(Range(companyIds) \cap LiveCompanies(db)) = Len(companyIds)
         \* userCompany.deleteMany, then createMany
         db1 == IF IsGiven(data.companyIds)
                THEN [db EXCEPT !.userCompany[id] = companyIds]
                ELSE db
         updateData ==
           IF ~IsGiven(data.companyIds) THEN updateData0
           ELSE IF Len(companyIds) = 1
             THEN [updateData0 EXCEPT !.primaryCompanyId = companyIds[1]]
           ELSE IF Len(companyIds) = 0
             THEN [updateData0 EXCEPT !.primaryCompanyId = None]
           ELSE updateData0
         deviceIds == IF IsGiven(data.deviceIds) THEN data.deviceIds[1] ELSE {}
         finalRole == IF IsGiven(data.role) THEN data.role[1] ELSE existingUser.role
         foundDevices == deviceIds \cap LiveDevices(db1)
         deviceCompanyIds == {db1.devices[d].companyId : d \in foundDevices}
         userCompanyIds == IF IsGiven(data.companyIds) THEN companyIds
                           ELSE existingCompanies
         \* userDevice.deleteMany, then createMany
         db2 == IF IsGiven(data.deviceIds)
                THEN [db1 EXCEPT !.userDevice[id] = deviceIds]
                ELSE db1
         \* user.update
         db3 == [db2 EXCEPT !.users[id] = updateData]
         \* session.deleteMany when the status turns SUSPENDED
         db4 == IF /\ data.status = Given("SUSPENDED")
                   /\ existingUser.status # "SUSPENDED"
                THEN [db3 EXCEPT !.sessions[id] = 0]
                ELSE db3
     IN IF IsGiven(data.companyIds) /\ ~companiesValid
          THEN Err("ValidationError", db)
        ELSE IF IsGiven(data.deviceIds) /\ finalRole = "VIEWER" /\ deviceIds = {}
          THEN Err("ValidationError", db1)
        ELSE IF IsGiven(data.deviceIds) /\ deviceIds # {}
                /\ foundDevices # deviceIds
          THEN Err("ValidationError", db1)
        ELSE IF IsGiven(data.deviceIds) /\ deviceIds # {}
                /\ authUser.role # "SUPER_ADMIN"
                /\ ~(deviceCompanyIds \subseteq Range(authUser.companyIds))
          THEN Err("ForbiddenError", db1)
        ELSE IF IsGiven(data.deviceIds) /\ deviceIds # {}
                /\ Len(userCompanyIds) > 0
                /\ ~(deviceCompanyIds \subseteq Range(userCompanyIds))
          THEN Err("ValidationError", db1)
        ELSE Done(db4)

deleteUserNoSelfCheck(db, id, authUser) ==
  IF id \notin LiveUsers(db) THEN Err("NotFoundError", db)
  ELSE IF ~canManageUser(authUser, db.users[id].role)
    THEN Err("ForbiddenError", db)
  ELSE Done([db EXCEPT !.users[id].deleted = TRUE])
deleteUser(db, id, authUser) ==
  IF id \notin LiveUsers(db) THEN Err("NotFoundError", db)
  ELSE IF ~canManageUser(authUser, db.users[id].role)
    THEN Err("ForbiddenError", db)
  ELSE IF id = authUser.id THEN Err("ForbiddenError", db)
  ELSE Done([db EXCEPT !.users[id].deleted = TRUE])

(***************************************************************************)
(* services/auth.service.ts: the payload of the issued access token is     *)
(* the third field of the outcome (NoUser when none is issued)             *)
(***************************************************************************)
Issued(db, payload) == [kind |-> "next", db |-> db, payload |-> payload]
Refused(kind, db) == [kind |-> kind, db |-> db, payload |-> NoUser]

UserByEmail(db, email) ==
  {u \in LiveUsers(db) : db.users[u].email = email}

\* cleaned: the rows cleanupExpiredSessions finds expired
login(db, email, isPasswordValid, cleaned) ==
  IF UserByEmail(db, email) = {} THEN Refused("UnauthorizedError", db)
  ELSE
  LET id == CHOOSE u \in UserByEmail(db, email) : TRUE
      user == db.users[id]
      companyIds == db.userCompany[id]
  IN IF user.status = "SUSPENDED" THEN Refused("ForbiddenError", db)
     ELSE IF ~isPasswordValid THEN Refused("UnauthorizedError", db)
     ELSE Issued([db EXCEPT !.sessions[id] = @ + 1 - cleaned],
                 AuthUser(id, user.role, companyIds, user.primaryCompanyId))

\* known: the refresh token is that of a stored session row; expired: the
\* row's expiresAt has passed
refreshToken(db, id, known, expired) ==
  IF ~known THEN Refused("UnauthorizedError", db)
  ELSE IF expired
    THEN Refused("UnauthorizedError", [db EXCEPT !.sessions[id] = @ - 1])
  ELSE IF db.users[id].status = "SUSPENDED" THEN Refused("ForbiddenError", db)
  ELSE IF db.users[id].deleted THEN Refused("UnauthorizedError", db)
  ELSE Issued(db, AuthUser(id, db.users[id].role, db.userCompany[id], None))

logout(db, id, known) ==
  IF known THEN Done([db EXCEPT !.sessions[id] = @ - 1]) ELSE Done(db)

(***************************************************************************)
(* services/company.service.ts                                             *)
(***************************************************************************)
canManageCompany(authUser, companyId) ==
  IF authUser.role = "SUPER_ADMIN" THEN TRUE
  ELSE IF authUser.role = "ADMIN" THEN includes(authUser.companyIds, companyId)
  ELSE FALSE

\* the UserCompany rows and the Device rows that point at a company
CompanyUsers(db, companyId) ==
  {u \in DOMAIN db.userCompany : includes(db.userCompany[u], companyId)}
CompanyDevices(db, companyId) ==
  {d \in DOMAIN db.devices : db.devices[d].companyId = companyId}

createCompany(db, data, authUser, id) ==
  IF authUser.role \notin {"ADMIN", "SUPER_ADMIN"} THEN Err("ForbiddenError", db)
  ELSE IF \E c \in LiveCompanies(db) : db.companies[c].name = data.name
    THEN Err("ConflictError", db)
  ELSE
  LET db1 == [db EXCEPT !.companies = @ @@ (id :> CompanyRow(data.name, FALSE))]
      db2 == [db1 EXCEPT !.userCompany[authUser.id] = Append(@, id)]
      db3 == IF Len(db2.userCompany[authUser.id]) = 1
             THEN [db2 EXCEPT !.users[authUser.id].primaryCompanyId = id]
             ELSE db2
  IN IF authUser.role = "ADMIN" THEN Done(db3) ELSE Done(db1)

deleteCompany(db, id, authUser) ==
  IF id \notin LiveCompanies(db) THEN Err("NotFoundError", db)
  ELSE IF ~canManageCompany(authUser, id) THEN Err("ForbiddenError", db)
  ELSE IF Cardinality(CompanyDevices(db, id)) > 0 THEN Err("ValidationError", db)
  ELSE IF \/ Cardinality(CompanyUsers(db, id)) > 1
          \/ (Cardinality(CompanyUsers(db, id)) = 1 /\ authUser.role # "ADMIN")
    THEN Err("ValidationError", db)
  ELSE Done([db EXCEPT !.companies[id].deleted = TRUE])

\* the ids of the page getCompanies returns, as the third field
Listed(db, rows) == [kind |-> "next", db |-> db, rows |-> rows]
Unlisted(kind, db) == [kind |-> kind, db |-> db, rows |-> {}]

getCompanies(db, authUser) ==
  IF authUser.role = "SUPER_ADMIN" THEN Listed(db, LiveCompanies(db))
  ELSE IF authUser.role = "ADMIN"
    THEN Listed(db, {c \in LiveCompanies(db) :
                       /\ authUser.id \in DOMAIN db.userCompany
                       /\ includes(db.userCompany[authUser.id], c)})
  ELSE Unlisted("ForbiddenError", db)

\* data: [name (optional)]
updateCompany(db, id, data, authUser) ==
  IF id \notin LiveCompanies(db) THEN Err("NotFoundError", db)
  ELSE IF ~canManageCompany(authUser, id) THEN Err("ForbiddenError", db)
  ELSE IF /\ IsGiven(data.name) /\ data.name[1] # db.companies[id].name
          /\ \E c \in LiveCompanies(db) \ {id} :
               db.companies[c].name = data.name[1]
    THEN Err("ConflictError", db)
  ELSE Done([db EXCEPT !.companies[id].name =
               IF IsGiven(data.name) THEN data.name[1] ELSE @])

(***************************************************************************)
(* services/device.service.ts                                              *)
(***************************************************************************)
createDeviceAnyParent(db, data, authUser, headerCompanyId, id) ==
  LET activeCompanyId == DeviceService_getActiveCompanyId(authUser, headerCompanyId)
  IN IF authUser.role \notin {"ADMIN", "SUPER_ADMIN"} THEN Err("ForbiddenError", db)
     ELSE IF authUser.role = "ADMIN" /\ activeCompanyId.kind # "next"
       THEN Err(activeCompanyId.kind, db)
     ELSE IF authUser.role = "ADMIN" /\ data.companyId # activeCompanyId.value
       THEN Err("ForbiddenError", db)
     ELSE IF data.companyId \notin LiveCompanies(db) THEN Err("NotFoundError", db)
     ELSE IF \E d \in LiveDevices(db) :
               /\ db.devices[d].serialNumber = data.serialNumber
               /\ db.devices[d].companyId = data.companyId
       THEN Err("ConflictError", db)
     ELSE IF data.parentId # None /\ data.parentId \notin LiveDevices(db)
       THEN Err("NotFoundError", db)
     ELSE Done([db EXCEPT !.devices = @ @@
            (id :> DeviceRow(data.companyId, data.serialNumber, data.parentId, FALSE))])
\* data: [companyId, serialNumber, parentId (None when left out)]
createDeviceAssigned(db, data, authUser, headerCompanyId, id) ==
  IF authUser.role \notin {"ADMIN", "SUPER_ADMIN"} THEN Err("ForbiddenError", db)
  ELSE IF authUser.role = "ADMIN" /\ ~includes(authUser.companyIds, data.companyId)
    THEN Err("ForbiddenError", db)
  ELSE IF data.companyId \notin LiveCompanies(db) THEN Err("NotFoundError", db)
  ELSE Done([db EXCEPT !.devices = @ @@
         (id :> DeviceRow(data.companyId, data.serialNumber, data.parentId, FALSE))])
createDevice(db, data, authUser, headerCompanyId, id) ==
  LET activeCompanyId == DeviceService_getActiveCompanyId(authUser, headerCompanyId)
  IN IF authUser.role \notin {"ADMIN", "SUPER_ADMIN"} THEN Err("ForbiddenError", db)
     ELSE IF authUser.role = "ADMIN" /\ activeCompanyId.kind # "next"
       THEN Err(activeCompanyId.kind, db)
     ELSE IF authUser.role = "ADMIN" /\ data.companyId # activeCompanyId.value
       THEN Err("ForbiddenError", db)
     ELSE IF data.companyId \notin LiveCompanies(db) THEN Err("NotFoundError", db)
     ELSE IF \E d \in LiveDevices(db) :
               /\ db.devices[d].serialNumber = data.serialNumber
               /\ db.devices[d].companyId = data.companyId
       THEN Err("ConflictError", db)
     ELSE IF data.parentId # None /\ data.parentId \notin LiveDevices(db)
       THEN Err("NotFoundError", db)
     ELSE IF data.parentId # None
             /\ db.devices[data.parentId].companyId # data.companyId
       THEN Err("ValidationError", db)
     ELSE Done([db EXCEPT !.devices = @ @@
            (id :> DeviceRow(data.companyId, data.serialNumber, data.parentId, FALSE))])

updateDeviceNoSerialCheck(db, id, data, authUser, headerCompanyId) ==
  LET activeCompanyId == DeviceService_getActiveCompanyId(authUser, headerCompanyId)
  IN IF authUser.role \notin {"ADMIN", "SUPER_ADMIN"} THEN Err("ForbiddenError", db)
     ELSE IF id \notin LiveDevices(db) THEN Err("NotFoundError", db)
     ELSE
     LET existingDevice == db.devices[id]
     IN IF authUser.role = "ADMIN" /\ activeCompanyId.kind # "next"
          THEN Err(activeCompanyId.kind, db)
        ELSE IF authUser.role = "ADMIN"
                /\ existingDevice.companyId # activeCompanyId.value
          THEN Err("ForbiddenError", db)
        ELSE IF data.parentId \notin {NotGiven, Given(None)}
                /\ data.parentId[1] \notin LiveDevices(db)
          THEN Err("NotFoundError", db)
        ELSE IF data.parentId \notin {NotGiven, Given(None)}
                /\ data.parentId[1] = id
          THEN Err("ValidationError", db)
        ELSE IF data.parentId \notin {NotGiven, Given(None)}
                /\ db.devices[data.parentId[1]].companyId # existingDevice.companyId
          THEN Err("ValidationError", db)
        ELSE Done([db EXCEPT !.devices[id] =
               [@ EXCEPT
                  !.serialNumber = IF IsGiven(data.serialNumber)
                                   THEN data.serialNumber[1] ELSE @,
                  !.parentId = IF IsGiven(data.parentId)
                               THEN data.parentId[1] ELSE @]])
\* data: [serialNumber (optional), parentId (optional; None is null)]
updateDevice(db, id, data, authUser, headerCompanyId) ==
  LET activeCompanyId == DeviceService_getActiveCompanyId(authUser, headerCompanyId)
  IN IF authUser.role \notin {"ADMIN", "SUPER_ADMIN"} THEN Err("ForbiddenError", db)
     ELSE IF id \notin LiveDevices(db) THEN Err("NotFoundError", db)
     ELSE
     LET existingDevice == db.devices[id]
     IN IF authUser.role = "ADMIN" /\ activeCompanyId.kind # "next"
          THEN Err(activeCompanyId.kind, db)
        ELSE IF authUser.role = "ADMIN"
                /\ existingDevice.companyId # activeCompanyId.value
          THEN Err("ForbiddenError", db)
        ELSE IF /\ IsGiven(data.serialNumber)
                /\ data.serialNumber[1] # existingDevice.serialNumber
                /\ \E d \in LiveDevices(db) \ {id} :
                     /\ db.devices[d].serialNumber = data.serialNumber[1]
                     /\ db.devices[d].companyId = existingDevice.companyId
          THEN Err("ConflictError", db)
        ELSE IF data.parentId \notin {NotGiven, Given(None)}
                /\ data.parentId[1] \notin LiveDevices(db)
          THEN Err("NotFoundError", db)
        ELSE IF data.parentId \notin {NotGiven, Given(None)}
                /\ data.parentId[1] = id
          THEN Err("ValidationError", db)
        ELSE IF data.parentId \notin {NotGiven, Given(None)}
                /\ db.devices[data.parentId[1]].companyId # existingDevice.companyId
          THEN Err("ValidationError", db)
        ELSE Done([db EXCEPT !.devices[id] =
               [@ EXCEPT
                  !.serialNumber = IF IsGiven(data.serialNumber)
                                   THEN data.serialNumber[1] ELSE @,
                  !.parentId = IF IsGiven(data.parentId)
                               THEN data.parentId[1] ELSE @]])

deleteDeviceAnyChild(db, id, authUser, headerCompanyId) ==
  LET activeCompanyId == DeviceService_getActiveCompanyId(authUser, headerCompanyId)
  IN IF authUser.role \notin {"ADMIN", "SUPER_ADMIN"} THEN Err("ForbiddenError", db)
     ELSE IF id \notin LiveDevices(db) THEN Err("NotFoundError", db)
     ELSE IF authUser.role = "ADMIN" /\ activeCompanyId.kind # "next"
       THEN Err(activeCompanyId.kind, db)
     ELSE IF authUser.role = "ADMIN"
             /\ db.devices[id].companyId # activeCompanyId.value
       THEN Err("ForbiddenError", db)
     ELSE IF \E d \in DOMAIN db.devices : db.devices[d].parentId = id
       THEN Err("ValidationError", db)
     ELSE Done([db EXCEPT !.devices[id].deleted = TRUE])
deleteDevice(db, id, authUser, headerCompanyId) ==
  LET activeCompanyId == DeviceService_getActiveCompanyId(authUser, headerCompanyId)
  IN IF authUser.role \notin {"ADMIN", "SUPER_ADMIN"} THEN Err("ForbiddenError", db)
     ELSE IF id \notin LiveDevices(db) THEN Err("NotFoundError", db)
     ELSE IF authUser.role = "ADMIN" /\ activeCompanyId.kind # "next"
       THEN Err(activeCompanyId.kind, db)
     ELSE IF authUser.role = "ADMIN"
             /\ db.devices[id].companyId # activeCompanyId.value
       THEN Err("ForbiddenError", db)
     ELSE IF \E d \in LiveDevices(db) : db.devices[d].parentId = id
       THEN Err("ValidationError", db)
     ELSE Done([db EXCEPT !.devices[id].deleted = TRUE])

getDeviceByIdActiveScoped(db, id, authUser, headerCompanyId) ==
  IF id \notin LiveDevices(db) THEN Err("NotFoundError", db)
  ELSE IF authUser.role \in {"ADMIN", "MANAGER"}
          /\ db.devices[id].companyId # headerCompanyId
    THEN Err("ForbiddenError", db)
  ELSE IF authUser.role = "VIEWER" /\ id \notin db.userDevice[authUser.id]
    THEN Err("ForbiddenError", db)
  ELSE Done(db)
\* headerCompanyId is accepted and not read
getDeviceById(db, id, authUser, headerCompanyId) ==
  IF id \notin LiveDevices(db) THEN Err("NotFoundError", db)
  ELSE IF authUser.role = "SUPER_ADMIN" THEN Done(db)
  ELSE IF authUser.role \in {"ADMIN", "MANAGER"} THEN
    IF ~includes(authUser.companyIds, db.devices[id].companyId)
    THEN Err("ForbiddenError", db)
    ELSE Done(db)
  ELSE IF authUser.role = "VIEWER" THEN
    IF authUser.id \notin DOMAIN db.userDevice
       \/ id \notin db.userDevice[authUser.id]
    THEN Err("ForbiddenError", db)
    ELSE Done(db)
  ELSE Done(db)

(***************************************************************************)
(* Requests: authenticate (the descriptor of the token presented), the     *)
(* active-company middleware mounted on /api/v1, the route's authorize,    *)
(* then the controller and its service                                     *)
(***************************************************************************)
authorize(allowedRoles, authUser) ==
  IF authUser = NoUser THEN "ForbiddenError"
  ELSE IF authUser.role \notin allowedRoles THEN "ForbiddenError"
  ELSE "next"

UserRouteRoles == {"MANAGER", "ADMIN", "SUPER_ADMIN"}
CompanyRouteRoles == {"ADMIN", "SUPER_ADMIN"}
DeviceRouteRoles == {"ADMIN", "SUPER_ADMIN"}

\* the response to a request and what the request was: op, the caller's id
\* and descriptor role, the scope the middleware resolved, the stage that
\* answered, the error kind ("next" on success), the row addressed, whether
\* that row was present and not deleted, its role and its company before
Request(n, op, authUser, active, stage, kind, target, live, targetRole, company) ==
  [n |-> n, op |-> op, actor |-> authUser.id, role |-> authUser.role,
   active |-> active, stage |-> stage, kind |-> kind, target |-> target,
   live |-> live, targetRole |-> targetRole, company |-> company]
NoRequest == Request(0, "none", NoUser, None, None, None, None, FALSE, None, None)

\* the stages in front of the controller: the outcome of the first that
\* refuses, or "next" with the resolved scope
Pipeline(allowedRoles, authUser, headerCompanyId) ==
  LET mw == activeCompanyMiddleware(authUser, headerCompanyId)
  IN IF mw.kind # "next"
     THEN [stage |-> "activeCompany", kind |-> mw.kind, active |-> None]
     ELSE IF authorize(allowedRoles, authUser) # "next"
     THEN [stage |-> "authorize", kind |-> authorize(allowedRoles, authUser),
           active |-> mw.activeCompanyId]
     ELSE [stage |-> "service", kind |-> "next", active |-> mw.activeCompanyId]

\* the hints a client sends with a request
RequestHeaders == {None, "short"} \cup CompanyIds

\* what the stages in front of a controller can answer to a caller, over
\* all hints; the user and company controllers do not pass the scope on
Outcomes(allowedRoles, authUser) ==
  {Pipeline(allowedRoles, authUser, h) : h \in RequestHeaders}
OutcomesNoScope(allowedRoles, authUser) ==
  {[p EXCEPT !.active = None] : p \in Outcomes(allowedRoles, authUser)}

SetStore(db) ==
  /\ users' = db.users
  /\ userCompany' = db.userCompany
  /\ userDevice' = db.userDevice
  /\ companies' = db.companies
  /\ devices' = db.devices
  /\ sessions' = db.sessions

Budget == last.n < MaxOps

EmailOf(i) == "e" \o Digit(i)
NameOf(i) == "n" \o Digit(i)
SerialOf(i) == "s" \o Digit(i)

RoleOfUser(id) == IF id \in DOMAIN users THEN users[id].role ELSE None
CompanyOfDevice(id) == IF id \in DOMAIN devices THEN devices[id].companyId ELSE None

(***************************************************************************)
(* routes/auth.routes.ts                                                   *)
(***************************************************************************)
Login ==
  /\ Budget
  /\ \E owner \in DOMAIN users, isPasswordValid \in BOOLEAN,
     cleaned \in 0..MaxSessions :
    LET r == login(DB, users[owner].email, isPasswordValid, cleaned)
    IN /\ cleaned <= sessions[owner]
       /\ r.db.sessions[owner] <= MaxSessions
       /\ SetStore(r.db)
       /\ tokens' = IF r.kind = "next"
                    THEN [u \in DOMAIN tokens \cup {owner} |->
                            IF u = owner THEN r.payload ELSE tokens[u]]
                    ELSE tokens
       /\ last' = Request(last.n + 1, "login", NoUser, None, "service", r.kind,
                          owner, owner \in LiveUsers(DB), users[owner].role, None)
       /\ UNCHANGED call

RefreshToken ==
  /\ Budget
  /\ \E id \in DOMAIN tokens, known \in BOOLEAN, expired \in BOOLEAN :
    LET r == refreshToken(DB, id, known, expired)
    IN /\ known => sessions[id] > 0
       /\ SetStore(r.db)
       /\ tokens' = IF r.kind = "next" THEN [tokens EXCEPT ![id] = r.payload]
                    ELSE tokens
       /\ last' = Request(last.n + 1, "refreshToken", NoUser, None, "service",
                          r.kind, id, id \in LiveUsers(DB), users[id].role, None)
       /\ UNCHANGED call

Logout ==
  /\ Budget
  /\ \E id \in DOMAIN tokens, known \in BOOLEAN :
    LET r == logout(DB, id, known)
    IN /\ known => sessions[id] > 0
       /\ SetStore(r.db)
       /\ last' = Request(last.n + 1, "logout", NoUser, None, "service",
                          r.kind, id, id \in LiveUsers(DB), users[id].role, None)
       /\ UNCHANGED <<tokens, call>>

(***************************************************************************)
(* routes/user.routes.ts                                                   *)
(***************************************************************************)
\* request bodies: an address is the one of the first user (taken) or one
\* nobody has; an update carries at most MaxFields attributes
CreateUserBodies ==
  [role : Role, companyIds : InjSeqs(CompanyIds, MaxIds),
   deviceIds : SUBSET DeviceIds]

FieldsGiven(data) ==
  Len(data.email) + Len(data.role) + Len(data.status)
    + Len(data.companyIds) + Len(data.deviceIds)

UpdateUserInputs ==
  {data \in [email : {NotGiven, Given(EmailOf(1))},
             role : {NotGiven} \cup {Given(r) : r \in Role},
             status : {NotGiven} \cup {Given(st) : st \in UserStatus},
             companyIds : {NotGiven} \cup {Given(cs) : cs \in InjSeqs(CompanyIds, MaxIds)},
             deviceIds : {NotGiven} \cup {Given(ds) : ds \in SUBSET DeviceIds}] :
     FieldsGiven(data) <= MaxFields}

CreateUser ==
  /\ Budget
  /\ \E actor \in DOMAIN tokens :
    \E p \in OutcomesNoScope(UserRouteRoles, tokens[actor]) :
      LET authUser == tokens[actor]
          i == Fresh(DOMAIN users, UserIdOf, MaxUsers)
      IN /\ IF p.kind # "next"
            THEN /\ last' = Request(last.n + 1, "createUser", authUser, p.active,
                                    p.stage, p.kind, None, FALSE, None, None)
                 /\ UNCHANGED <<store, tokens, call>>
            ELSE /\ i > 0
                 /\ \E body \in CreateUserBodies, email \in {EmailOf(1), EmailOf(i)} :
                      LET data == [email |-> email, role |-> body.role,
                                   companyIds |-> body.companyIds,
                                   deviceIds |-> body.deviceIds]
                          r == createUser(DB, data, authUser, UserIdOf(i))
                      IN /\ SetStore(r.db)
                         /\ last' = Request(last.n + 1, "createUser", authUser,
                                            p.active, p.stage, r.kind, UserIdOf(i),
                                            FALSE, data.role, None)
                 /\ UNCHANGED <<tokens, call>>

UpdateUser ==
  /\ Budget
  /\ \E actor \in DOMAIN tokens, id \in UserIds :
    \E p \in OutcomesNoScope(UserRouteRoles, tokens[actor]) :
      LET authUser == tokens[actor]
      IN /\ IF p.kind # "next"
            THEN /\ last' = Request(last.n + 1, "updateUser", authUser, p.active,
                                    p.stage, p.kind, id, id \in LiveUsers(DB),
                                    RoleOfUser(id), None)
                 /\ UNCHANGED <<store, tokens, call>>
            ELSE /\ \E data \in UpdateUserInputs :
                      LET r == updateUser(DB, id, data, authUser)
                      IN /\ SetStore(r.db)
                         /\ last' = Request(last.n + 1, "updateUser", authUser,
                                            p.active, p.stage, r.kind, id,
                                            id \in LiveUsers(DB), RoleOfUser(id),
                                            None)
                 /\ UNCHANGED <<tokens, call>>

DeleteUser ==
  /\ Budget
  /\ \E actor \in DOMAIN tokens, id \in UserIds :
    \E p \in OutcomesNoScope(UserRouteRoles, tokens[actor]) :
      LET authUser == tokens[actor]
          r == IF p.kind # "next" THEN Err(p.kind, DB)
               ELSE deleteUser(DB, id, authUser)
      IN /\ SetStore(r.db)
         /\ last' = Request(last.n + 1, "deleteUser", authUser, p.active, p.stage,
                            r.kind, id, id \in LiveUsers(DB), RoleOfUser(id), None)
         /\ UNCHANGED <<tokens, call>>

(***************************************************************************)
(* routes/company.routes.ts                                                *)
(***************************************************************************)
CreateCompany ==
  /\ Budget
  /\ \E actor \in DOMAIN tokens :
    \E p \in OutcomesNoScope(CompanyRouteRoles, tokens[actor]) :
      LET authUser == tokens[actor]
          i == Fresh(DOMAIN companies, CompanyIdOf, MaxCompanies)
      IN /\ IF p.kind # "next"
            THEN /\ last' = Request(last.n + 1, "createCompany", authUser,
                                    p.active, p.stage, p.kind, None, FALSE, None,
                                    None)
                 /\ UNCHANGED <<store, tokens, call>>
            ELSE /\ i > 0
                 /\ \E name \in {NameOf(1), NameOf(i)} :
                      LET r == createCompany(DB, [name |-> name], authUser,
                                             CompanyIdOf(i))
                      IN /\ SetStore(r.db)
                         /\ last' = Request(last.n + 1, "createCompany", authUser,
                                            p.active, p.stage, r.kind,
                                            CompanyIdOf(i), FALSE, None,
                                            CompanyIdOf(i))
                 /\ UNCHANGED <<tokens, call>>

DeleteCompany ==
  /\ Budget
  /\ \E actor \in DOMAIN tokens, id \in CompanyIds :
    \E p \in OutcomesNoScope(CompanyRouteRoles, tokens[actor]) :
      LET authUser == tokens[actor]
          r == IF p.kind # "next" THEN Err(p.kind, DB)
               ELSE deleteCompany(DB, id, authUser)
      IN /\ SetStore(r.db)
         /\ last' = Request(last.n + 1, "deleteCompany", authUser, p.active,
                            p.stage, r.kind, id, id \in LiveCompanies(DB), None, id)
         /\ UNCHANGED <<tokens, call>>

UpdateCompanyInputs ==
  [name : {NotGiven} \cup {Given(NameOf(i)) : i \in 1..MaxCompanies}]

UpdateCompany ==
  /\ Budget
  /\ \E actor \in DOMAIN tokens, id \in CompanyIds :
    \E p \in OutcomesNoScope(CompanyRouteRoles, tokens[actor]) :
      LET authUser == tokens[actor]
      IN /\ IF p.kind # "next"
            THEN /\ last' = Request(last.n + 1, "updateCompany", authUser,
                                    p.active, p.stage, p.kind, id,
                                    id \in LiveCompanies(DB), None, id)
                 /\ UNCHANGED <<store, tokens, call>>
            ELSE /\ \E data \in UpdateCompanyInputs :
                      LET r == updateCompany(DB, id, data, authUser)
                      IN /\ SetStore(r.db)
                         /\ last' = Request(last.n + 1, "updateCompany", authUser,
                                            p.active, p.stage, r.kind, id,
                                            id \in LiveCompanies(DB), None, id)
                 /\ UNCHANGED <<tokens, call>>

GetCompanies ==
  /\ Budget
  /\ \E actor \in DOMAIN tokens :
    \E p \in OutcomesNoScope(CompanyRouteRoles, tokens[actor]) :
      LET authUser == tokens[actor]
          r == IF p.kind # "next" THEN Unlisted(p.kind, DB)
               ELSE getCompanies(DB, authUser)
      IN /\ SetStore(r.db)
         /\ last' = Request(last.n + 1, "getCompanies", authUser, p.active,
                            p.stage, r.kind, None, FALSE, None, None)
         /\ UNCHANGED <<tokens, call>>

(***************************************************************************)
(* routes/device.routes.ts                                                 *)
(***************************************************************************)
\* request bodies: a serial number is the one of the first device or one
\* nobody has
CreateDeviceBodies == [companyId : CompanyIds, parentId : DeviceIds \cup {None}]

UpdateDeviceInputs ==
  [serialNumber : {NotGiven} \cup {Given(SerialOf(i)) : i \in 1..MaxDevices},
   parentId : {NotGiven, Given(None)} \cup {Given(d) : d \in DeviceIds}]

CreateDevice ==
  /\ Budget
  /\ \E actor \in DOMAIN tokens :
    \E p \in Outcomes(DeviceRouteRoles, tokens[actor]) :
      LET authUser == tokens[actor]
          i == Fresh(DOMAIN devices, DeviceIdOf, MaxDevices)
      IN /\ IF p.kind # "next"
            THEN /\ last' = Request(last.n + 1, "createDevice", authUser, p.active,
                                    p.stage, p.kind, None, FALSE, None, None)
                 /\ UNCHANGED <<store, tokens, call>>
            ELSE /\ i > 0
                 /\ \E body \in CreateDeviceBodies,
                       serialNumber \in {SerialOf(1), SerialOf(i)} :
                      LET data == [companyId |-> body.companyId,
                                   serialNumber |-> serialNumber,
                                   parentId |-> body.parentId]
                          r == createDevice(DB, data, authUser, p.active,
                                            DeviceIdOf(i))
                      IN /\ SetStore(r.db)
                         /\ last' = Request(last.n + 1, "createDevice", authUser,
                                            p.active, p.stage, r.kind,
                                            DeviceIdOf(i), FALSE, None,
                                            data.companyId)
                 /\ UNCHANGED <<tokens, call>>

UpdateDevice ==
  /\ Budget
  /\ \E actor \in DOMAIN tokens, id \in DeviceIds :
    \E p \in Outcomes(DeviceRouteRoles, tokens[actor]) :
      LET authUser == tokens[actor]
      IN /\ IF p.kind # "next"
            THEN /\ last' = Request(last.n + 1, "updateDevice", authUser, p.active,
                                    p.stage, p.kind, id, id \in LiveDevices(DB),
                                    None, CompanyOfDevice(id))
                 /\ UNCHANGED <<store, tokens, call>>
            ELSE /\ \E data \in UpdateDeviceInputs :
                      LET r == updateDevice(DB, id, data, authUser, p.active)
                      IN /\ SetStore(r.db)
                         /\ last' = Request(last.n + 1, "updateDevice", authUser,
                                            p.active, p.stage, r.kind, id,
                                            id \in LiveDevices(DB), None,
                                            CompanyOfDevice(id))
                 /\ UNCHANGED <<tokens, call>>

DeleteDevice ==
  /\ Budget
  /\ \E actor \in DOMAIN tokens, id \in DeviceIds :
    \E p \in Outcomes(DeviceRouteRoles, tokens[actor]) :
      LET authUser == tokens[actor]
          r == IF p.kind # "next" THEN Err(p.kind, DB)
               ELSE deleteDevice(DB, id, authUser, p.active)
      IN /\ SetStore(r.db)
         /\ last' = Request(last.n + 1, "deleteDevice", authUser, p.active, p.stage,
                            r.kind, id, id \in LiveDevices(DB), None,
                            CompanyOfDevice(id))
         /\ UNCHANGED <<tokens, call>>

\* GET /devices/:id has no authorize in front of the controller
GetDeviceById ==
  /\ Budget
  /\ \E actor \in DOMAIN tokens, id \in DeviceIds :
    \E p \in Outcomes(Role, tokens[actor]) :
      LET authUser == tokens[actor]
          r == IF p.kind # "next" THEN Err(p.kind, DB)
               ELSE getDeviceById(DB, id, authUser, p.active)
      IN /\ SetStore(r.db)
         /\ last' = Request(last.n + 1, "getDeviceById", authUser, p.active,
                            p.stage, r.kind, id, id \in LiveDevices(DB), None,
                            CompanyOfDevice(id))
         /\ UNCHANGED <<tokens, call>>

(***************************************************************************)
(* The installation: the rows prisma/seed.ts loads, nobody logged in       *)
(***************************************************************************)
InitSeed ==
  /\ users = (Root :> UserRow(EmailOf(1), "SUPER_ADMIN", "VALIDATED", None, FALSE))
               @@ (UserIdOf(2) :> UserRow(EmailOf(2), "ADMIN", "VALIDATED",
                                          CompanyIdOf(1), FALSE))
  /\ userCompany = (Root :> <<>>) @@ (UserIdOf(2) :> <<CompanyIdOf(1)>>)
  /\ userDevice = (Root :> {}) @@ (UserIdOf(2) :> {})
  /\ \E k \in {MaxCompanies - 1, MaxCompanies} :
       companies = [c \in {CompanyIdOf(i) : i \in 1..k} |->
                      CompanyRow(NameOf(IndexOf(c)), FALSE)]
  /\ devices = (DeviceIdOf(1) :> DeviceRow(CompanyIdOf(1), SerialOf(1), None, FALSE))
  /\ sessions = [u \in UserIds |-> 0]
  /\ tokens = Empty
  /\ last = NoRequest
  /\ call = Idle

NextAuth == Login \/ RefreshToken \/ Logout
NextUsers == CreateUser \/ UpdateUser \/ DeleteUser
NextCompanies == CreateCompany \/ DeleteCompany
NextDevices == CreateDevice \/ UpdateDevice \/ DeleteDevice

Next == NextAuth \/ NextUsers \/ NextCompanies \/ NextDevices
Spec == InitSeed /\ [][Next]_vars

(***************************************************************************)
(* The last of MaxOps requests against any installation: the rows are      *)
(* drawn from bounded sets, the caller holds any descriptor a token can    *)
(* carry (a token outlives changes of its owner's row), and the last id of *)
(* each kind has no row                                                    *)
(***************************************************************************)
PresentUsers == {UserIdOf(i) : i \in 1..(MaxUsers - 1)}
PresentCompanies == {CompanyIdOf(i) : i \in 1..(MaxCompanies - 1)}
UserIndex(u) == CHOOSE i \in 1..MaxUsers : UserIdOf(i) = u
DeviceIndex(d) == CHOOSE i \in 1..MaxDevices : DeviceIdOf(i) = d

InitCaller ==
  /\ \E holder \in PresentUsers, a \in AuthUsers :
       tokens = (holder :> [a EXCEPT !.id = holder])
  /\ sessions = [u \in UserIds |-> 0]
  /\ last = [NoRequest EXCEPT !.n = MaxOps - 1]
  /\ call = Idle

InitAnyUsers ==
  /\ \E role \in [PresentUsers -> Role], deleted \in [PresentUsers -> BOOLEAN] :
       users = [u \in PresentUsers |->
                  UserRow(EmailOf(UserIndex(u)), role[u], "VALIDATED", None,
                          deleted[u])]
  /\ userCompany = [u \in PresentUsers |-> <<>>]
  /\ userDevice = [u \in PresentUsers |-> {}]
  /\ companies = [c \in PresentCompanies |-> CompanyRow(NameOf(IndexOf(c)), FALSE)]
  /\ devices = Empty
  /\ InitCaller

InitAnyDevices ==
  /\ users = [u \in PresentUsers |->
                UserRow(EmailOf(UserIndex(u)), "SUPER_ADMIN", "VALIDATED", None,
                        FALSE)]
  /\ userCompany = [u \in PresentUsers |-> <<>>]
  /\ userDevice = [u \in PresentUsers |-> {}]
  /\ companies = [c \in PresentCompanies |-> CompanyRow(NameOf(IndexOf(c)), FALSE)]
  /\ \E k \in {MaxDevices - 1, MaxDevices} :
       LET present == {DeviceIdOf(i) : i \in 1..k}
       IN \E companyId \in [present -> PresentCompanies],
             deleted \in [present -> BOOLEAN],
             child \in BOOLEAN :
            devices = [d \in present |->
                         DeviceRow(companyId[d], SerialOf(DeviceIndex(d)),
                                   IF /\ child /\ DeviceIndex(d) > 1
                                      /\ companyId[d] = companyId[DeviceIdOf(1)]
                                   THEN DeviceIdOf(1) ELSE None,
                                   deleted[d])]
  /\ InitCaller

SpecDeleteUser == InitAnyUsers /\ [][DeleteUser]_vars
SpecDeviceMutation == InitAnyDevices /\ [][NextDevices]_vars

\* the same with any UserCompany rows and devices of the first company
InitAnyCompanies ==
  /\ \E deleted \in [PresentUsers -> BOOLEAN], assigned \in SUBSET PresentUsers :
       /\ users = [u \in PresentUsers |->
                     UserRow(EmailOf(UserIndex(u)), "ADMIN", "VALIDATED",
                             IF u \in assigned THEN CompanyIdOf(1) ELSE None,
                             deleted[u])]
       /\ userCompany = [u \in PresentUsers |->
                           IF u \in assigned THEN <<CompanyIdOf(1)>> ELSE <<>>]
  /\ userDevice = [u \in PresentUsers |-> {}]
  /\ \E deleted \in [PresentCompanies -> BOOLEAN] :
       companies = [c \in PresentCompanies |->
                      CompanyRow(NameOf(IndexOf(c)), deleted[c])]
  /\ \E present \in SUBSET {DeviceIdOf(i) : i \in 1..(MaxDevices - 1)} :
       \E deleted \in [present -> BOOLEAN] :
         devices = [d \in present |->
                      DeviceRow(CompanyIdOf(1), SerialOf(DeviceIndex(d)), None,
                                deleted[d])]
  /\ InitCaller

SpecCompanyDelete == InitAnyCompanies /\ [][DeleteCompany]_vars
SpecCompanyCreate == InitAnyCompanies /\ [][CreateCompany]_vars

\* the same with any UserDevice rows
InitAnyDeviceViews ==
  /\ users = [u \in PresentUsers |->
                UserRow(EmailOf(UserIndex(u)), "SUPER_ADMIN", "VALIDATED", None,
                        FALSE)]
  /\ userCompany = [u \in PresentUsers |-> <<>>]
  /\ userDevice \in [PresentUsers -> SUBSET DeviceIds]
  /\ companies = [c \in PresentCompanies |-> CompanyRow(NameOf(IndexOf(c)), FALSE)]
  /\ \E k \in {MaxDevices - 1, MaxDevices} :
       LET present == {DeviceIdOf(i) : i \in 1..k}
       IN \E companyId \in [present -> PresentCompanies],
             deleted \in [present -> BOOLEAN] :
            devices = [d \in present |->
                         DeviceRow(companyId[d], SerialOf(DeviceIndex(d)), None,
                                   deleted[d])]
  /\ InitCaller

SpecDeviceView == InitAnyDeviceViews /\ [][GetDeviceById]_vars

(***************************************************************************)
(* An installation in use: the seeded rows, with or without a third user   *)
(* (a MANAGER, or a VIEWER of the seeded device), every user logged in     *)
(* and holding the token login issued                                      *)
(***************************************************************************)
InitLoggedIn ==
  /\ \E third \in {None, "MANAGER", "VIEWER"} :
       LET present == IF third = None THEN {Root, UserIdOf(2)}
                      ELSE {Root, UserIdOf(2), UserIdOf(3)}
       IN /\ users = [u \in present |->
                        IF u = Root
                        THEN UserRow(EmailOf(1), "SUPER_ADMIN", "VALIDATED", None,
                                     FALSE)
                        ELSE IF u = UserIdOf(2)
                        THEN UserRow(EmailOf(2), "ADMIN", "VALIDATED",
                                     CompanyIdOf(1), FALSE)
                        ELSE UserRow(EmailOf(3), third, "VALIDATED",
                                     CompanyIdOf(1), FALSE)]
          /\ userCompany = [u \in present |->
                              IF u = Root THEN <<>> ELSE <<CompanyIdOf(1)>>]
          /\ userDevice = [u \in present |->
                             IF u = UserIdOf(3) /\ third = "VIEWER"
                             THEN {DeviceIdOf(1)} ELSE {}]
          /\ sessions = [u \in UserIds |-> IF u \in present THEN 1 ELSE 0]
  /\ \E k \in {MaxCompanies - 1, MaxCompanies} :
       companies = [c \in {CompanyIdOf(i) : i \in 1..k} |->
                      CompanyRow(NameOf(IndexOf(c)), FALSE)]
  /\ devices = (DeviceIdOf(1) :> DeviceRow(CompanyIdOf(1), SerialOf(1), None, FALSE))
  /\ tokens = [u \in DOMAIN users |->
                 AuthUser(u, users[u].role, userCompany[u],
                          users[u].primaryCompanyId)]
  /\ last = [NoRequest EXCEPT !.n = MaxOps - 2]
  /\ call = Idle

\* the last two of MaxOps requests on users and companies
NextInUse ==
  \/ CreateUser \/ UpdateUser
  \/ CreateCompany \/ UpdateCompany \/ DeleteCompany \/ GetCompanies
SpecInUse == InitLoggedIn /\ [][NextInUse]_vars

(***************************************************************************)
(* Concurrent requests about one user: PUT /users/:id with a status, POST  *)
(* /auth/login and POST /auth/refresh, each split at its awaited store     *)
(* calls; call holds where each handler is and what it has read            *)
(***************************************************************************)
Subject == UserIdOf(2)

\* a handler that has not started: nothing read, no outcome
Handler(pc, seen, kind) == [pc |-> pc, seen |-> seen, kind |-> kind]

InitRace ==
  /\ \E status \in UserStatus :
       users = (Root :> UserRow(EmailOf(1), "SUPER_ADMIN", "VALIDATED", None, FALSE))
                 @@ (Subject :> UserRow(EmailOf(2), "ADMIN", status,
                                        CompanyIdOf(1), FALSE))
  /\ userCompany = (Root :> <<>>) @@ (Subject :> <<CompanyIdOf(1)>>)
  /\ userDevice = (Root :> {}) @@ (Subject :> {})
  /\ companies = (CompanyIdOf(1) :> CompanyRow(NameOf(1), FALSE))
  /\ devices = Empty
  /\ \E n \in 0..MaxSessions :
       sessions = [u \in UserIds |-> IF u = Subject THEN n ELSE 0]
  /\ tokens = Empty
  /\ last = NoRequest
  /\ \E status \in UserStatus, isPasswordValid \in BOOLEAN, expired \in BOOLEAN :
       call = [fn |-> "race", status |-> status,
               isPasswordValid |-> isPasswordValid, expired |-> expired,
               update |-> Handler("findUnique", None, None),
               login |-> Handler("findUnique", None, None),
               refresh |-> Handler("findUnique", None, None)]

\* updateUser by the SUPER_ADMIN with data {status}: the row is read ...
UpdateUser_findUnique ==
  /\ call.fn = "race" /\ call.update.pc = "findUnique"
  /\ call' = [call EXCEPT !.update =
                 Handler("update", users[Subject].status, None)]
  /\ UNCHANGED <<store, tokens, last>>

\* ... user.update writes the status ...
UpdateUser_update ==
  /\ call.fn = "race" /\ call.update.pc = "update"
  /\ users' = [users EXCEPT ![Subject].status = call.status]
  /\ call' = [call EXCEPT !.update =
                 IF call.status = "SUSPENDED" /\ call.update.seen # "SUSPENDED"
                 THEN Handler("deleteMany", call.update.seen, None)
                 ELSE Handler("done", call.update.seen, "next")]
  /\ UNCHANGED <<userCompany, userDevice, companies, devices, sessions,
                 tokens, last>>

\* ... and session.deleteMany removes the user's sessions; a refresh that
\* has read one of them has lost its row
UpdateUser_deleteMany ==
  /\ call.fn = "race" /\ call.update.pc = "deleteMany"
  /\ sessions' = [sessions EXCEPT ![Subject] = 0]
  /\ call' = [call EXCEPT
                 !.update = Handler("done", call.update.seen, "next"),
                 !.refresh = IF call.refresh.pc = "update"
                             THEN Handler("update", "gone", None)
                             ELSE @]
  /\ UNCHANGED <<users, userCompany, userDevice, companies, devices,
                 tokens, last>>

\* login: the user is read and its status tested, the password compared
Login_findUnique ==
  /\ call.fn = "race" /\ call.login.pc = "findUnique"
  /\ call' = [call EXCEPT !.login =
                 IF users[Subject].status = "SUSPENDED"
                 THEN Handler("done", users[Subject].status, "ForbiddenError")
                 ELSE IF ~call.isPasswordValid
                 THEN Handler("done", users[Subject].status, "UnauthorizedError")
                 ELSE Handler("create", users[Subject].status, None)]
  /\ UNCHANGED <<store, tokens, last>>

\* login: session.create, then cleanupExpiredSessions
Login_create ==
  /\ call.fn = "race" /\ call.login.pc = "create"
  /\ \E cleaned \in 0..sessions[Subject] :
       /\ sessions[Subject] + 1 - cleaned <= MaxSessions
       /\ sessions' = [sessions EXCEPT ![Subject] = @ + 1 - cleaned]
  /\ tokens' = (Subject :> AuthUser(Subject, users[Subject].role,
                                    userCompany[Subject],
                                    users[Subject].primaryCompanyId))
  /\ call' = [call EXCEPT !.login = Handler("done", call.login.seen, "next")]
  /\ UNCHANGED <<users, userCompany, userDevice, companies, devices, last>>

\* refreshToken: the session is read with its user; an expired one is
\* deleted
RefreshToken_findUnique ==
  /\ call.fn = "race" /\ call.refresh.pc = "findUnique"
  /\ IF sessions[Subject] = 0
     THEN /\ call' = [call EXCEPT !.refresh =
                        Handler("done", None, "UnauthorizedError")]
          /\ UNCHANGED sessions
     ELSE IF call.expired
     THEN /\ call' = [call EXCEPT !.refresh =
                        Handler("done", "held", "UnauthorizedError")]
          /\ sessions' = [sessions EXCEPT ![Subject] = @ - 1]
     ELSE IF users[Subject].status = "SUSPENDED"
     THEN /\ call' = [call EXCEPT !.refresh =
                        Handler("done", "held", "ForbiddenError")]
          /\ UNCHANGED sessions
     ELSE /\ call' = [call EXCEPT !.refresh = Handler("update", "held", None)]
          /\ UNCHANGED sessions
  /\ UNCHANGED <<users, userCompany, userDevice, companies, devices,
                 tokens, last>>

\* refreshToken: session.update of the row read; Prisma throws when the
\* row is gone
RefreshToken_update ==
  /\ call.fn = "race" /\ call.refresh.pc = "update"
  /\ call' = [call EXCEPT !.refresh =
                 IF call.refresh.seen = "gone"
                 THEN Handler("done", "gone", "NotFoundError")
                 ELSE Handler("done", "held", "next")]
  /\ UNCHANGED <<store, tokens, last>>

NextRace ==
  \/ UpdateUser_findUnique \/ UpdateUser_update \/ UpdateUser_deleteMany
  \/ Login_findUnique \/ Login_create
  \/ RefreshToken_findUnique \/ RefreshToken_update
SpecRace == InitRace /\ [][NextRace]_vars

(***************************************************************************)
(* Two concurrent mutating requests of a SUPER_ADMIN, each split at its    *)
(* awaited store calls: createDevice in the first company, createCompany,  *)
(* deleteDevice of the first device; call holds the two bodies and where   *)
(* each handler is                                                         *)
(***************************************************************************)
Slots == {"a", "b"}
\* the id the store gives the row a slot's request creates
NewDeviceId(slot) == IF slot = "a" THEN DeviceIdOf(2) ELSE DeviceIdOf(3)
NewCompanyId(slot) == IF slot = "a" THEN CompanyIdOf(2) ELSE CompanyIdOf(3)

Mutation(op, name, serialNumber, parentId, pc, kind) ==
  [op |-> op, name |-> name, serialNumber |-> serialNumber,
   parentId |-> parentId, pc |-> pc, kind |-> kind]

Mutations ==
  {Mutation("createDevice", None, SerialOf(i), parentId, "findFirst", None) :
     i \in 1..MaxIds, parentId \in {None, DeviceIdOf(1)}}
  \cup {Mutation("createCompany", NameOf(i), None, None, "findFirst", None) :
          i \in 1..MaxIds}
  \cup {Mutation("deleteDevice", None, None, None, "findUnique", None)}

InitMutations ==
  /\ users = (Root :> UserRow(EmailOf(1), "SUPER_ADMIN", "VALIDATED", None, FALSE))
  /\ userCompany = (Root :> <<>>)
  /\ userDevice = (Root :> {})
  /\ companies = (CompanyIdOf(1) :> CompanyRow(NameOf(1), FALSE))
  /\ devices = (DeviceIdOf(1) :> DeviceRow(CompanyIdOf(1), SerialOf(1), None, FALSE))
  /\ sessions = [u \in UserIds |-> 0]
  /\ tokens = Empty
  /\ last = NoRequest
  /\ \E a \in Mutations, b \in Mutations :
       call = [fn |-> "mutations", a |-> a, b |-> b]

At(slot, op, pc) ==
  /\ call.fn = "mutations"
  /\ call[slot].op = op /\ call[slot].pc = pc
Goto(slot, pc, kind) ==
  call' = [call EXCEPT ![slot].pc = pc, ![slot].kind = kind]

\* createDevice: company.findUnique and device.findFirst on the serial number
CreateDevice_findFirst ==
  \E slot \in Slots :
    /\ At(slot, "createDevice", "findFirst")
    /\ IF CompanyIdOf(1) \notin LiveCompanies(DB)
       THEN Goto(slot, "done", "NotFoundError")
       ELSE IF \E d \in LiveDevices(DB) :
                 /\ devices[d].serialNumber = call[slot].serialNumber
                 /\ devices[d].companyId = CompanyIdOf(1)
       THEN Goto(slot, "done", "ConflictError")
       ELSE IF call[slot].parentId # None THEN Goto(slot, "findUnique", None)
       ELSE Goto(slot, "create", None)
    /\ UNCHANGED <<store, tokens, last>>

\* createDevice: device.findUnique on the parent
CreateDevice_findUnique ==
  \E slot \in Slots :
    /\ At(slot, "createDevice", "findUnique")
    /\ IF call[slot].parentId \notin LiveDevices(DB)
       THEN Goto(slot, "done", "NotFoundError")
       ELSE IF devices[call[slot].parentId].companyId # CompanyIdOf(1)
       THEN Goto(slot, "done", "ValidationError")
       ELSE Goto(slot, "create", None)
    /\ UNCHANGED <<store, tokens, last>>

\* createDevice: device.create
CreateDevice_create ==
  \E slot \in Slots :
    /\ At(slot, "createDevice", "create")
    /\ devices' = devices @@
         (NewDeviceId(slot) :> DeviceRow(CompanyIdOf(1), call[slot].serialNumber,
                                         call[slot].parentId, FALSE))
    /\ Goto(slot, "done", "next")
    /\ UNCHANGED <<users, userCompany, userDevice, companies, sessions,
                   tokens, last>>

\* createCompany: company.findFirst on the name
CreateCompany_findFirst ==
  \E slot \in Slots :
    /\ At(slot, "createCompany", "findFirst")
    /\ IF \E c \in LiveCompanies(DB) : companies[c].name = call[slot].name
       THEN Goto(slot, "done", "ConflictError")
       ELSE Goto(slot, "create", None)
    /\ UNCHANGED <<store, tokens, last>>

\* createCompany: company.create (a SUPER_ADMIN gets no UserCompany row)
CreateCompany_create ==
  \E slot \in Slots :
    /\ At(slot, "createCompany", "create")
    /\ companies' = companies @@
         (NewCompanyId(slot) :> CompanyRow(call[slot].name, FALSE))
    /\ Goto(slot, "done", "next")
    /\ UNCHANGED <<users, userCompany, userDevice, devices, sessions,
                   tokens, last>>

\* deleteDevice: device.findUnique with the children that are not deleted
DeleteDevice_findUnique ==
  \E slot \in Slots :
    /\ At(slot, "deleteDevice", "findUnique")
    /\ IF DeviceIdOf(1) \notin LiveDevices(DB)
       THEN Goto(slot, "done", "NotFoundError")
       ELSE IF \E d \in LiveDevices(DB) : devices[d].parentId = DeviceIdOf(1)
       THEN Goto(slot, "done", "ValidationError")
       ELSE Goto(slot, "update", None)
    /\ UNCHANGED <<store, tokens, last>>

\* deleteDevice: device.update sets deleted
DeleteDevice_update ==
  \E slot \in Slots :
    /\ At(slot, "deleteDevice", "update")
    /\ devices' = [devices EXCEPT ![DeviceIdOf(1)].deleted = TRUE]
    /\ Goto(slot, "done", "next")
    /\ UNCHANGED <<users, userCompany, userDevice, companies, sessions,
                   tokens, last>>

NextMutations ==
  \/ CreateDevice_findFirst \/ CreateDevice_findUnique \/ CreateDevice_create
  \/ CreateCompany_findFirst \/ CreateCompany_create
  \/ DeleteDevice_findUnique \/ DeleteDevice_update
SpecMutations == InitMutations /\ [][NextMutations]_vars

(***************************************************************************)
(* Evaluation of the pure functions of the core on drawn inputs            *)
(***************************************************************************)
ResolveCalls ==
  {[fn |-> "resolve", authUser |-> a, header |-> h,
    strict |-> <<>>, optional |-> <<>>] : a \in AuthUsers, h \in Headers}
ListCalls ==
  {[fn |-> "list", authUser |-> a, header |-> h, queryCompanyId |-> q,
    devices |-> <<>>, users |-> <<>>] :
      a \in AuthUsers, h \in Headers, q \in CompanyIds \cup {None}}
RoleCalls ==
  {[fn |-> "canManageRole", actorRole |-> r, targetRole |-> t, action |-> x,
    out |-> <<>>] : r \in Role, t \in Role, x \in Actions}

InitCore ==
  /\ InitStore
  /\ tokens = Empty
  /\ last = NoRequest
  /\ call \in ResolveCalls \cup ListCalls \cup RoleCalls

EvalActiveCompany ==
  /\ call.fn = "resolve" /\ call.strict = <<>>
  /\ call' = [call EXCEPT
       !.strict = <<activeCompanyMiddleware(call.authUser, call.header)>>]
  /\ UNCHANGED <<store, tokens, last>>

EvalOptionalActiveCompany ==
  /\ call.fn = "resolve" /\ call.optional = <<>>
  /\ call' = [call EXCEPT
       !.optional = <<optionalActiveCompanyMiddleware(call.authUser, call.header)>>]
  /\ UNCHANGED <<store, tokens, last>>

\* GET /devices: activeCompanyMiddleware, then the controller hands
\* req.activeCompanyId to DeviceService.getDevices
EvalGetDevices ==
  /\ call.fn = "list" /\ call.devices = <<>>
  /\ LET mw == activeCompanyMiddleware(call.authUser, call.header)
     IN call' = [call EXCEPT !.devices =
          <<[scope |-> mw,
             where |-> IF mw.kind # "next" THEN Where(mw.kind, None, None)
                       ELSE getDevicesWhere(call.queryCompanyId, call.authUser,
                                            mw.activeCompanyId)]>>]
  /\ UNCHANGED <<store, tokens, last>>

\* GET /users, likewise
EvalGetUsers ==
  /\ call.fn = "list" /\ call.users = <<>>
  /\ LET mw == activeCompanyMiddleware(call.authUser, call.header)
     IN call' = [call EXCEPT !.users =
          <<[scope |-> mw,
             where |-> IF mw.kind # "next" THEN Where(mw.kind, None, None)
                       ELSE getUsersWhere(call.queryCompanyId, call.authUser,
                                          mw.activeCompanyId)]>>]
  /\ UNCHANGED <<store, tokens, last>>

EvalCanManageRole ==
  /\ call.fn = "canManageRole" /\ call.out = <<>>
  /\ call' = [call EXCEPT
       !.out = <<canManageRole(call.actorRole, call.targetRole, call.action)>>]
  /\ UNCHANGED <<store, tokens, last>>

NextCore ==
  \/ EvalActiveCompany
  \/ EvalOptionalActiveCompany
  \/ EvalGetDevices
  \/ EvalGetUsers
  \/ EvalCanManageRole

SpecCore == InitCore /\ [][NextCore]_vars

(***************************************************************************)
(* Properties of the tenancy resolver and of the role matrix (SpecCore)    *)
(***************************************************************************)
\* header values by the shape the client gave them
AbsentHints == {None, "empty"}
MalformedHints == {"short", "nothex", "nodash", "long"}
WellFormedHints == Headers \ (AbsentHints \cup MalformedHints)

Resolved == call.fn = "resolve" /\ call.strict # <<>>
Strict == call.strict[1]
Optional == call.optional[1]

\* C2: for a caller that is not SUPER_ADMIN and a hint that is present, a
\* malformed hint fails with ValidationError, a well-formed hint outside the
\* caller's companyIds fails with ForbiddenError, and any other hint is the
\* resolved scope whatever primaryCompanyId and the first company are.
C2_HintValidatedThenMembership ==
  (Resolved /\ call.authUser.role # "SUPER_ADMIN"
     /\ call.header \notin AbsentHints) =>
    /\ call.header \in MalformedHints => Strict = Fail("ValidationError")
    /\ (call.header \in WellFormedHints
        /\ call.header \notin Range(call.authUser.companyIds))
         => Strict = Fail("ForbiddenError")
    /\ (call.header \in WellFormedHints
        /\ call.header \in Range(call.authUser.companyIds))
         => Strict = Next_(call.header)

\* caller {ADMIN, [c1, c2], primary c1} sends header c2 and is scoped to c2
C2_Witness ==
  /\ Resolved
  /\ call.authUser.role = "ADMIN"
  /\ call.authUser.companyIds = <<CompanyIdOf(1), CompanyIdOf(2)>>
  /\ call.authUser.primaryCompanyId = CompanyIdOf(1)
  /\ call.header = CompanyIdOf(2)
  /\ Strict = Next_(CompanyIdOf(2))

\* C3: without a hint a caller that is not SUPER_ADMIN is scoped to its
\* primaryCompanyId when set, otherwise to the first element of companyIds,
\* otherwise the request fails with ForbiddenError.
C3_FallbackPrecedence ==
  (Resolved /\ call.authUser.role # "SUPER_ADMIN"
     /\ call.header \in AbsentHints) =>
    Strict = IF call.authUser.primaryCompanyId # None
               THEN Next_(call.authUser.primaryCompanyId)
             ELSE IF Len(call.authUser.companyIds) > 0
               THEN Next_(call.authUser.companyIds[1])
             ELSE Fail("ForbiddenError")

\* the primary company is the second assigned company and still wins
C3_Witness ==
  /\ Resolved
  /\ call.authUser.role = "MANAGER"
  /\ call.authUser.companyIds = <<CompanyIdOf(1), CompanyIdOf(2)>>
  /\ call.authUser.primaryCompanyId = CompanyIdOf(2)
  /\ call.header = None
  /\ Strict = Next_(CompanyIdOf(2))

\* C5: for a SUPER_ADMIN, no hint leaves the scope unset and getDevices and
\* getUsers then filter by company only as far as the query names one; a
\* well-formed hint is the scope, assigned or not; a malformed hint fails
\* with ValidationError.
C5_SuperAdminScope ==
  /\ (Resolved /\ call.authUser.role = "SUPER_ADMIN") =>
       /\ call.header \in AbsentHints =>
            /\ Strict = Next_(None)
            /\ Strict.activeCompanyId \notin CompanyIds \cup WellFormedHints
       /\ call.header \in WellFormedHints => Strict = Next_(call.header)
       /\ call.header \in MalformedHints => Strict = Fail("ValidationError")
  /\ (call.fn = "list" /\ call.authUser.role = "SUPER_ADMIN"
        /\ call.header \in AbsentHints) =>
       /\ call.devices # <<>> =>
            /\ call.devices[1].scope = Next_(None)
            /\ call.devices[1].where = Where("next", call.queryCompanyId, None)
       /\ call.users # <<>> =>
            /\ call.users[1].scope = Next_(None)
            /\ call.users[1].where = Where("next", call.queryCompanyId, None)

\* a SUPER_ADMIN lists devices and users with neither hint nor query company
C5_Witness ==
  /\ call.fn = "list"
  /\ call.authUser.role = "SUPER_ADMIN"
  /\ call.header = None /\ call.queryCompanyId = None
  /\ call.devices # <<>> /\ call.users # <<>>
  /\ call.devices[1].where.companyId = None
  /\ call.users[1].where.companyId = None

\* C6: the optional resolver fails as the strict one does on a present hint,
\* resolves to the company the strict one resolves to, and yields no scope
\* only where the strict one yields no scope or fails for want of a company.
C6_OptionalRefinesStrict ==
  (Resolved /\ call.optional # <<>>) =>
    /\ (Strict.kind # "next" /\ call.header \notin AbsentHints)
         => Optional = Strict
    /\ (Strict.kind = "next" /\ Strict.activeCompanyId # None)
         => Optional = Strict
    /\ Optional = Next_(None)
         => Strict \in {Next_(None), Fail("ForbiddenError")}

\* C8: create and update allow exactly the targets of the actor's row,
\* and delete allows the same targets except SUPER_ADMIN on SUPER_ADMIN.
RowOf(actorRole) ==
  CASE actorRole = "SUPER_ADMIN" -> Role
    [] actorRole = "ADMIN" -> {"MANAGER", "VIEWER"}
    [] actorRole = "MANAGER" -> {"VIEWER"}
    [] OTHER -> {}

C8_RoleMatrix ==
  (call.fn = "canManageRole" /\ call.out # <<>>) =>
    LET R == call.actorRole
        T == call.targetRole
    IN /\ call.action \in {"create", "update"} => call.out[1] = (T \in RowOf(R))
       /\ call.action = "delete" =>
            call.out[1] = (T \in RowOf(R) /\ <<R, T>> # <<"SUPER_ADMIN", "SUPER_ADMIN">>)
       /\ canManageRole(R, T, "create") = canManageRole(R, T, "update")
       /\ (canManageRole(R, T, "delete") # canManageRole(R, T, "create"))
            = (<<R, T>> = <<"SUPER_ADMIN", "SUPER_ADMIN">>)

\* a MANAGER asks to create an ADMIN and is refused
C8_Witness ==
  /\ call.fn = "canManageRole"
  /\ call.actorRole = "MANAGER" /\ call.targetRole = "ADMIN"
  /\ call.action = "create"
  /\ call.out = <<FALSE>>

(***************************************************************************)
(* Claims about requests                                                   *)
(***************************************************************************)
\* C1: whatever token a caller other than SUPER_ADMIN holds after login or
\* refreshToken and whatever hint comes with it, a scope the strict
\* middleware resolves is one of the caller's companyIds.
C1_TenancyIsolation ==
  \A u \in DOMAIN tokens : \A h \in Headers :
    LET r == activeCompanyMiddleware(tokens[u], h)
    IN (tokens[u].role # "SUPER_ADMIN" /\ r.kind = "next")
         => r.activeCompanyId \in Range(tokens[u].companyIds)

\* C4: for a caller other than SUPER_ADMIN with no companyIds the strict
\* middleware fails with ForbiddenError whatever the hint and whatever
\* primaryCompanyId, and sets no scope.
C4_NoCompanyAlwaysForbidden ==
  (Resolved /\ call.authUser.role # "SUPER_ADMIN"
     /\ call.authUser.companyIds = <<>>) => Strict = Fail("ForbiddenError")

DeletesUser == last.op = "deleteUser" /\ last.stage = "service"

\* C7: deleteUser by a SUPER_ADMIN on another, not deleted SUPER_ADMIN fails
\* with ForbiddenError and leaves the target not deleted; on another, not
\* deleted user deleteUser succeeds exactly when canManageRole allows the
\* delete.
C7_DeleteAsymmetry ==
  (DeletesUser /\ last.target # last.actor /\ last.live) =>
    /\ (last.role = "SUPER_ADMIN" /\ last.targetRole = "SUPER_ADMIN")
         => (last.kind = "ForbiddenError" /\ ~users[last.target].deleted)
    /\ last.kind = "next" <=> canManageRole(last.role, last.targetRole, "delete")

\* C9: a delete request on the caller's own id never succeeds; for every
\* caller role, once the active company is resolved and the caller's row is
\* not deleted, it fails with ForbiddenError (at the route's role list or in
\* deleteUser), and the row's deleted flag stays false.
C9_NoSelfDeletion ==
  (last.op = "deleteUser" /\ last.target = last.actor) =>
    /\ last.kind # "next"
    /\ (last.stage # "activeCompany" /\ last.live)
         => last.kind = "ForbiddenError"
    /\ last.live => ~users[last.target].deleted

C9_Witness ==
  /\ DeletesUser /\ last.target = last.actor /\ last.live
  /\ last.role = "SUPER_ADMIN" /\ last.targetRole = "SUPER_ADMIN"
  /\ last.kind = "ForbiddenError"
  /\ ~users[last.target].deleted

DeviceMutations == {"createDevice", "updateDevice", "deleteDevice"}

ViewsDevice == last.op = "getDeviceById" /\ last.stage = "service"
\* what the claim says lets a caller view a device that is not deleted
MayViewDevice ==
  CASE last.role = "SUPER_ADMIN" -> TRUE
    [] last.role \in {"ADMIN", "MANAGER"} ->
         last.company \in Range(tokens[last.actor].companyIds)
    [] OTHER -> last.target \in userDevice[last.actor]

\* C11: getDeviceById fails with NotFoundError on a missing or deleted
\* device whatever the caller; on a device that is not deleted it succeeds
\* for a SUPER_ADMIN, for an ADMIN or MANAGER exactly when the device's
\* company is in the caller's companyIds (whatever the active company), for
\* a VIEWER exactly when the caller has a UserDevice row for it, and fails
\* with ForbiddenError otherwise.
C11_DeviceView ==
  ViewsDevice =>
    IF ~last.live THEN last.kind = "NotFoundError"
    ELSE IF MayViewDevice THEN last.kind = "next"
    ELSE last.kind = "ForbiddenError"

C11_Witness ==
  /\ ViewsDevice /\ last.live /\ last.role = "MANAGER"
  /\ last.active # None /\ last.active # last.company
  /\ last.kind = "next"

(***************************************************************************)
(* Company management (SpecInUse)                                          *)
(***************************************************************************)
\* C12: updateCompany and deleteCompany succeed only for a SUPER_ADMIN, or
\* for an ADMIN who has a stored UserCompany row for that company at the
\* time of the request; getCompanies never succeeds for a MANAGER or a
\* VIEWER and, once the active company is resolved, fails with
\* ForbiddenError.
C12_CompanyAuthorization ==
  /\ (last.op \in {"updateCompany", "deleteCompany"} /\ last.kind = "next") =>
       \/ last.role = "SUPER_ADMIN"
       \/ (last.role = "ADMIN" /\ last.actor \in CompanyUsers(DB, last.target))
  /\ (last.op = "getCompanies" /\ last.role \in {"MANAGER", "VIEWER"}) =>
       /\ last.kind # "next"
       /\ last.stage # "activeCompany" => last.kind = "ForbiddenError"

(***************************************************************************)
(* List visibility (SpecCore)                                              *)
(***************************************************************************)
\* a list request answered with a page selected by a where clause, under a
\* scope resolved to a company
ScopedPage(result) ==
  /\ result.scope.kind = "next" /\ result.scope.activeCompanyId # None
  /\ result.where.kind = "next"

\* C13: whenever the active company of a list request is resolved to a
\* company, the where clause of getDevices and of getUsers confines the rows
\* returned to that company, for every caller role and every companyId in
\* the query string.
C13_ScopeBoundsLists ==
  call.fn = "list" =>
    /\ \A i \in 1..Len(call.devices) :
         ScopedPage(call.devices[i])
           => call.devices[i].where.companyId = call.devices[i].scope.activeCompanyId
    /\ \A i \in 1..Len(call.users) :
         ScopedPage(call.users[i])
           => call.users[i].where.companyId = call.users[i].scope.activeCompanyId

(***************************************************************************)
(* User invariants (SpecInUse)                                             *)
(***************************************************************************)
\* C14: every user that is not deleted and whose role is VIEWER has at
\* least one assigned device, after any sequence of createUser and
\* updateUser calls.
C14_ViewerHasDevice ==
  \A u \in DOMAIN users :
    (~users[u].deleted /\ users[u].role = "VIEWER") => userDevice[u] # {}

\* C15: each user's stored primaryCompanyId is null or the id of a company
\* the user has a UserCompany row for.
C15_PrimaryIsAssigned ==
  \A u \in DOMAIN users :
    users[u].primaryCompanyId # None
      => includes(userCompany[u], users[u].primaryCompanyId)

\* the primaryCompanyId the claim derives from a list of assigned companies
DerivedPrimary(companyIds) ==
  IF Len(companyIds) = 1 THEN companyIds[1] ELSE None

\* C16: after a successful createUser, and after a successful updateUser
\* that rewrote the user's company rows, the user's primaryCompanyId is the
\* sole assigned company, or null when none or several are assigned.
C16_PrimaryDerivation ==
  [][(last'.n # last.n /\ last'.kind = "next") =>
       /\ last'.op = "createUser" =>
            users'[last'.target].primaryCompanyId
              = DerivedPrimary(userCompany'[last'.target])
       /\ (/\ last'.op = "updateUser"
           /\ userCompany'[last'.target] # userCompany[last'.target]) =>
            users'[last'.target].primaryCompanyId
              = DerivedPrimary(userCompany'[last'.target])]_vars

\* C17: an updateUser that fails leaves the stored users, company
\* assignments and device assignments as they were.
C17_NoPartialUpdate ==
  [][(last'.n # last.n /\ last'.op = "updateUser" /\ last'.kind # "next") =>
       /\ users' = users
       /\ userCompany' = userCompany
       /\ userDevice' = userDevice]_vars

(***************************************************************************)
(* Suspension and sessions (SpecRace)                                      *)
(***************************************************************************)
\* an updateUser that changed the status to SUSPENDED has completed
SuspensionDone ==
  /\ call.fn = "race" /\ call.update.pc = "done"
  /\ call.status = "SUSPENDED" /\ call.update.seen # "SUSPENDED"

\* C18: once an updateUser that changed the user's status to SUSPENDED has
\* completed, and for as long as the user is SUSPENDED, the user has no
\* Session row, whatever login and refreshToken requests run beside it.
C18_SuspensionRevokesSessions ==
  (SuspensionDone /\ users[Subject].status = "SUSPENDED")
    => sessions[Subject] = 0

(***************************************************************************)
(* deleteCompany (SpecCompanyDelete)                                       *)
(***************************************************************************)
\* deleteCompany reached its checks on a non-deleted company the caller may
\* manage
DeletesManagedCompany ==
  /\ last.op = "deleteCompany" /\ last.stage = "service" /\ last.live
  /\ last.kind \notin {"NotFoundError", "ForbiddenError"}

LiveCompanyDevices(companyId) ==
  {d \in CompanyDevices(DB, companyId) : ~devices[d].deleted}
LiveCompanyUsers(companyId) ==
  {u \in CompanyUsers(DB, companyId) : ~users[u].deleted}
MayDeleteCompany ==
  /\ LiveCompanyDevices(last.target) = {}
  /\ \/ LiveCompanyUsers(last.target) = {}
     \/ (Cardinality(LiveCompanyUsers(last.target)) = 1 /\ last.role = "ADMIN")

\* C19: for a caller allowed to manage a non-deleted company, deleteCompany
\* sets deleted exactly when the company has no non-deleted device and
\* either no assigned user or one assigned user with the caller an ADMIN;
\* otherwise it fails with ValidationError and the company stays; so it
\* succeeds for a company whose only devices are soft-deleted.
C19_DeleteCompanyPrecondition ==
  DeletesManagedCompany =>
    IF MayDeleteCompany
    THEN last.kind = "next" /\ companies[last.target].deleted
    ELSE last.kind = "ValidationError" /\ ~companies[last.target].deleted

(***************************************************************************)
(* deleteDevice and child devices (SpecDeviceMutation)                     *)
(***************************************************************************)
\* deleteDevice reached its child check: the device was not deleted and the
\* caller is a SUPER_ADMIN, or an ADMIN for whom the service resolves the
\* device's company as the active one
DeletesOwnDevice ==
  /\ last.op = "deleteDevice" /\ last.stage = "service" /\ last.live
  /\ \/ last.role = "SUPER_ADMIN"
     \/ /\ last.role = "ADMIN"
        /\ DeviceService_getActiveCompanyId(tokens[last.actor], last.active)
             = Value(last.company)

ChildRows(id) == {d \in DOMAIN devices : devices[d].parentId = id}
LiveChildRows(id) == {d \in ChildRows(id) : ~devices[d].deleted}

\* C20: while a device has a child that is not deleted, deleteDevice on it
\* fails with ValidationError and leaves it not deleted; when every child it
\* has is soft-deleted (or it has none), deleteDevice on it succeeds and
\* marks it deleted.
C20_DeleteOrdering ==
  DeletesOwnDevice =>
    IF LiveChildRows(last.target) # {}
    THEN last.kind = "ValidationError" /\ ~devices[last.target].deleted
    ELSE last.kind = "next" /\ devices[last.target].deleted

\* a parent whose children are all soft-deleted is deleted
C20_Witness ==
  /\ DeletesOwnDevice /\ last.role = "ADMIN"
  /\ ChildRows(last.target) # {} /\ LiveChildRows(last.target) = {}
  /\ last.kind = "next" /\ devices[last.target].deleted

\* a parent with a child that is not deleted is refused
C20_Refused ==
  /\ DeletesOwnDevice /\ LiveChildRows(last.target) # {}
  /\ last.kind = "ValidationError" /\ ~devices[last.target].deleted

(***************************************************************************)
(* Serial numbers (SpecDeviceMutation)                                     *)
(***************************************************************************)
\* a device of the company, not deleted and other than `except`, holds the
\* serial number
SerialTaken(companyId, serialNumber, except) ==
  \E d \in LiveDevices(DB) \ {except} :
    /\ devices[d].companyId = companyId
    /\ devices[d].serialNumber = serialNumber

UniqueSerials ==
  \A d, e \in LiveDevices(DB) :
    (d # e /\ devices[d].companyId = devices[e].companyId)
      => devices[d].serialNumber # devices[e].serialNumber

Serials == {SerialOf(i) : i \in 1..MaxDevices}

C21_OtherCompany ==
  /\ last.op \in {"createDevice", "updateDevice"} /\ last.kind = "next"
  /\ \E d \in LiveDevices(DB) :
       /\ d # last.target
       /\ devices[d].companyId # devices[last.target].companyId
       /\ devices[d].serialNumber = devices[last.target].serialNumber

(***************************************************************************)
(* Parents (SpecDeviceMutation)                                            *)
(***************************************************************************)
ParentsValid ==
  \A d \in DOMAIN devices :
    devices[d].parentId # None =>
      /\ devices[d].parentId \in DOMAIN devices
      /\ devices[d].parentId # d
      /\ devices[devices[d].parentId].companyId = devices[d].companyId

\* what the claim says of a mutation of device id in company companyId that
\* names parentId and is in order otherwise
ParentOutcome(id, companyId, parentId) ==
  IF parentId \notin LiveDevices(DB) THEN "NotFoundError"
  ELSE IF parentId = id \/ devices[parentId].companyId # companyId
    THEN "ValidationError"
  ELSE "next"

\* C22: every device whose parentId is set refers to a stored device other
\* than itself with the same companyId; whatever the caller holding a token
\* asks next, a createDevice or updateDevice that would succeed without a
\* parent fails with NotFoundError when it names a missing or soft-deleted
\* parent, with ValidationError when it names the device itself or a parent
\* of another company, changing nothing, and succeeds otherwise.
C22_ParentInvariant ==
  /\ ParentsValid
  /\ \A actor \in DOMAIN tokens, h \in {None} \cup CompanyIds, parentId \in DeviceIds :
       /\ \A companyId \in CompanyIds, serialNumber \in Serials :
            LET id == DeviceIdOf(MaxDevices)
                data == [companyId |-> companyId, serialNumber |-> serialNumber,
                         parentId |-> parentId]
                bare == createDevice(DB, [data EXCEPT !.parentId = None],
                                     tokens[actor], h, id)
                r == createDevice(DB, data, tokens[actor], h, id)
            IN (id \notin DOMAIN devices /\ bare.kind = "next") =>
                 /\ r.kind = ParentOutcome(id, companyId, parentId)
                 /\ r.kind # "next" => r.db = DB
       /\ \A id \in DOMAIN devices, serialNumber \in {NotGiven} \cup {Given(x) : x \in Serials} :
            LET data == [serialNumber |-> serialNumber, parentId |-> Given(parentId)]
                bare == updateDevice(DB, id, [data EXCEPT !.parentId = NotGiven],
                                     tokens[actor], h)
                r == updateDevice(DB, id, data, tokens[actor], h)
            IN bare.kind = "next" =>
                 /\ r.kind = ParentOutcome(id, devices[id].companyId, parentId)
                 /\ r.kind # "next" => r.db = DB

\* a device was given a parent of its own company
C22_Witness ==
  /\ last.op \in {"createDevice", "updateDevice"} /\ last.kind = "next"
  /\ last.target \in DOMAIN devices
  /\ devices[last.target].parentId # None
  /\ ParentsValid

(***************************************************************************)
(* Check-then-act (SpecMutations)                                          *)
(***************************************************************************)
UniqueNames ==
  \A c, e \in LiveCompanies(DB) : c # e => companies[c].name # companies[e].name

\* no device that is not deleted hangs under a deleted or missing parent
LiveParents ==
  \A d \in LiveDevices(DB) :
    devices[d].parentId # None => devices[d].parentId \in LiveDevices(DB)

\* C23: however the store calls of two concurrent mutating requests
\* interleave, serial numbers stay unique per company among devices that are
\* not deleted, names stay unique among companies that are not deleted, and
\* no device that is not deleted has a deleted parent.
C23_NoCheckThenActRace ==
  call.fn = "mutations" => (UniqueSerials /\ UniqueNames /\ LiveParents)

(***************************************************************************)
(* createCompany (SpecCompanyCreate)                                       *)
(***************************************************************************)
\* the companies a user is assigned to that are not deleted
LiveAssigned(u) == {c \in Range(userCompany[u]) : c \in LiveCompanies(DB)}

\* C24: a createCompany request of a MANAGER or VIEWER never succeeds and
\* fails with ForbiddenError once the active company is resolved; after a
\* successful one of an ADMIN the actor has a UserCompany row for the new
\* company and, if the actor had no assigned company that is not deleted
\* before, the actor's primaryCompanyId is the new company; after a
\* successful one of a SUPER_ADMIN no assignment and no primaryCompanyId has
\* changed.
C24_CreateCompanyEffects ==
  [][(last'.n # last.n /\ last'.op = "createCompany") =>
       /\ last'.role \in {"MANAGER", "VIEWER"} =>
            /\ last'.kind # "next"
            /\ last'.stage # "activeCompany" => last'.kind = "ForbiddenError"
       /\ (last'.role = "ADMIN" /\ last'.kind = "next") =>
            /\ includes(userCompany'[last'.actor], last'.target)
            /\ LiveAssigned(last'.actor) = {} =>
                 users'[last'.actor].primaryCompanyId = last'.target
       /\ (last'.role = "SUPER_ADMIN" /\ last'.kind = "next") =>
            /\ userCompany' = userCompany
            /\ \A u \in DOMAIN users :
                 users'[u].primaryCompanyId = users[u].primaryCompanyId]_vars

(***************************************************************************)
(* Privilege escalation (SpecInUse)                                        *)
(***************************************************************************)
\* the users whose row or assignments a step has written
Modified ==
  {u \in DOMAIN users' :
     \/ u \notin DOMAIN users
     \/ users'[u] # users[u]
     \/ userCompany'[u] # userCompany[u]
     \/ userDevice'[u] # userDevice[u]}

\* a createUser or updateUser request of a caller whose descriptor is not a
\* SUPER_ADMIN's
UserWriteBelowSuperAdmin ==
  /\ last'.n # last.n
  /\ last'.op \in {"createUser", "updateUser"}
  /\ last'.role # "SUPER_ADMIN"

\* the roles stay inside the descriptor's row of the matrix
WithinRow ==
  \A u \in Modified :
    /\ users'[u].role \in actionMap("update", last'.role)
    /\ u \in DOMAIN users => users[u].role \in actionMap("update", last'.role)

\* C25: a createUser or updateUser call made with a descriptor of a role
\* other than SUPER_ADMIN writes only users whose role before and after is
\* in that role's create/update row of the matrix, and never writes the
\* caller's own record.
C25_NoPrivilegeEscalation ==
  [][UserWriteBelowSuperAdmin => (WithinRow /\ last'.actor \notin Modified)]_vars

(***************************************************************************)
(* Same company (SpecInUse)                                                *)
(***************************************************************************)
\* the companies of the caller: those of the descriptor and those stored
CallerCompanies ==
  Range(tokens[last'.actor].companyIds) \cup Range(userCompany[last'.actor])

\* C26: an updateUser or deleteUser request of a caller other than a
\* SUPER_ADMIN succeeds only when the target user is assigned to at least
\* one company of the caller.
C26_SameCompany ==
  [][(/\ last'.n # last.n
      /\ last'.op \in {"updateUser", "deleteUser"}
      /\ last'.role # "SUPER_ADMIN"
      /\ last'.kind = "next")
       => Range(userCompany[last'.target]) \cap CallerCompanies # {}]_vars

(***************************************************************************)
(* Refreshed tokens (Spec)                                                 *)
(***************************************************************************)
\* the descriptor login issues for a user in the state a step leads to
LoginPayload(id) ==
  login([users |-> users', userCompany |-> userCompany',
         userDevice |-> userDevice', companies |-> companies',
         devices |-> devices', sessions |-> sessions'],
        users'[id].email, TRUE, 0).payload

\* C27: the descriptor in a token issued by refreshToken is the one login
\* issues for the same stored user (role, companyIds and primaryCompanyId),
\* so a request without a hint resolves to the same active company with
\* either.
C27_RefreshPreservesDefaults ==
  [][(last'.n # last.n /\ last'.op = "refreshToken" /\ last'.kind = "next") =>
       /\ tokens'[last'.target] = LoginPayload(last'.target)
       /\ activeCompanyMiddleware(tokens'[last'.target], None)
            = activeCompanyMiddleware(LoginPayload(last'.target), None)]_vars

(***************************************************************************)
(* First company (SpecCompanyCreate)                                       *)
(***************************************************************************)
\* an ADMIN with no company, in the store and in the token alike
FirstTimer(actor) ==
  /\ actor \in LiveUsers(DB)
  /\ userCompany[actor] = <<>>
  /\ tokens[actor] = AuthUser(actor, "ADMIN", <<>>, None)

\* C28: a create-company request without a hint of an ADMIN who has no
\* company passes activeCompanyMiddleware and authorize, and createCompany
\* on a free name creates the company and makes it the ADMIN's primary.
C28_FirstCompanyReachable ==
  \A actor \in DOMAIN tokens :
    FirstTimer(actor) =>
      LET p == Pipeline(CompanyRouteRoles, tokens[actor], None)
          id == CompanyIdOf(MaxCompanies)
          r == createCompany(DB, [name |-> NameOf(MaxCompanies)], tokens[actor], id)
      IN /\ p.stage = "service" /\ p.kind = "next"
         /\ r.kind = "next"
         /\ r.db.users[actor].primaryCompanyId = id

\* the service alone does what the claim says for such a caller
C28_ServiceAlone ==
  \A actor \in DOMAIN tokens :
    FirstTimer(actor) =>
      LET id == CompanyIdOf(MaxCompanies)
          r == createCompany(DB, [name |-> NameOf(MaxCompanies)], tokens[actor], id)
      IN r.kind = "next" /\ r.db.users[actor].primaryCompanyId = id

(***************************************************************************)
(* Deleted companies and later tokens (SpecCompanyDelete)                  *)
(***************************************************************************)
\* C29: after a successful deleteCompany, whatever hint comes with it, a
\* scope that activeCompanyMiddleware resolves for a token that login then
\* issues to a user other than a SUPER_ADMIN is a company that is not
\* deleted.
C29_ActiveCompanyNotDeleted ==
  [][(last'.n # last.n /\ last'.op = "deleteCompany" /\ last'.kind = "next") =>
       \A u \in DOMAIN users' : \A h \in Headers :
         LET payload == LoginPayload(u)
             r == activeCompanyMiddleware(payload, h)
         IN (/\ ~users'[u].deleted /\ users'[u].status # "SUSPENDED"
             /\ users'[u].role # "SUPER_ADMIN" /\ r.kind = "next")
              => ~companies'[r.activeCompanyId].deleted]_vars


(***************************************************************************)
(* The device hierarchy (SpecDeviceMutation)                               *)
(***************************************************************************)
\* following parentId from device d reaches a device without a parent in at
\* most `steps` steps
RECURSIVE ReachesRoot(_, _)
ReachesRoot(d, steps) ==
  IF devices[d].parentId = None THEN TRUE
  ELSE IF steps = 0 \/ devices[d].parentId \notin DOMAIN devices THEN FALSE
  ELSE ReachesRoot(devices[d].parentId, steps - 1)

\* a device that is not deleted and has no child that is not deleted
Deletable == {d \in LiveDevices(DB) : LiveChildRows(d) = {}}

\* C30: the device hierarchy is a forest: in every state reached by
\* createDevice and updateDevice, following parentId from any device reaches
\* a device without a parent in finitely many steps (no cycle), so while a
\* device that is not deleted remains, one of them has no live child and can
\* be soft-deleted.
C30_Forest ==
  /\ \A d \in DOMAIN devices : ReachesRoot(d, MaxDevices)
  /\ LiveDevices(DB) # {} => Deletable # {}

\* the first half alone
C30_NoCycle == \A d \in DOMAIN devices : ReachesRoot(d, MaxDevices)

====
